---- MODULE Spec2Model ----
(***************************************************************************)
(* Model of "Seguimiento de Atajados": the SQLite wrapper (database.py),   *)
(* the project manager with its dirty flag and zip packages                *)
(* (project_manager.py) and the tab handlers that write to the database    *)
(* (tabs/items_tab.py, tabs/atajados_tab.py, tabs/avance_tab.py).          *)
(*                                                                         *)
(* Conventions                                                             *)
(*   - a nullable SQL value / Python Optional is a sequence: <<>> is       *)
(*     NULL / None, <<v>> is the value v;                                  *)
(*   - REAL values are exact rationals <<num, den>> where the code         *)
(*     divides, integers otherwise (the code's floats are not modelled);   *)
(*   - text columns that no handler reads back (name, unit, comunidad,     *)
(*     beneficiario, ci) are left out of the rows.                         *)
(***************************************************************************)
EXTENDS Integers, Sequences, FiniteSets, TLC

VARIABLES
    items,            \* rows of table items of proyecto.db
    atajados,         \* rows of table atajados of proyecto.db
    avances,          \* rows of table avances of proyecto.db
    cols,             \* later-added columns present in proyecto.db's schema
    db_path,          \* Database.db_path: ":memory:" or "file"
    workfile,         \* the extracted atajados.db still exists on disk
    temp_dir,         \* ProyectoManager._temp_dir is set
    dirty,            \* ProyectoManager._dirty
    path,             \* Proyecto.path
    fs,               \* files on disk that can be opened / are saved
    at_text,          \* leading number of AvanceTab.at_combo's text
    current_atajado,  \* AvanceTab.current_atajado
    table,            \* item ids in the rows of AvanceTab.table
    window,           \* MainWindow: closed, its title, and the Database
                      \* object that MainWindow.db and each tab's db refer to
    images,           \* the image files under IMAGES_DIR and in each package,
                      \* and which of those under IMAGES_DIR were attached in
                      \* or came with the loaded project
    last              \* the handler that ran last, its input and outcome

vars == <<items, atajados, avances, cols, db_path, workfile, temp_dir,
          dirty, path, fs, at_text, current_atajado, table, window, images,
          last>>

-----------------------------------------------------------------------------
(* Bounds of the model *)

MaxItemId == 1        \* item rows get ids 1..MaxItemId
MaxAtajadoId == 1     \* atajado rows get ids 1..MaxAtajadoId
MaxNumber == 1        \* atajado numbers the user types: 1..MaxNumber
MaxQty == 2           \* item quantities the user types: -1..MaxQty
MaxPrice == 1         \* unit prices the user types: 0..MaxPrice
MaxStamp == 2         \* distinct date / comment texts the user enters

-----------------------------------------------------------------------------
(* Small helpers *)

NULL == <<>>
Some(v) == <<v>>
IsNull(x) == x = <<>>
Val(x) == x[1]

Max(S) == CHOOSE m \in S : \A x \in S : x <= m
Min(S) == CHOOSE m \in S : \A x \in S : m <= x

Abs(n) == IF n < 0 THEN -n ELSE n

RECURSIVE GCD(_, _)
GCD(a, b) == IF b = 0 THEN a ELSE GCD(b, a % b)

\* Rationals <<num, den>> with den > 0, in lowest terms.
Rat(n, d) ==
    LET s == IF d < 0 THEN -1 ELSE 1
        g == GCD(Abs(n), Abs(d))
    IN  <<(s * n) \div g, (s * d) \div g>>
RInt(n) == <<n, 1>>
RAdd(a, b) == Rat(a[1] * b[2] + b[1] * a[2], a[2] * b[2])
RMul(a, b) == Rat(a[1] * b[1], a[2] * b[2])
RDiv(a, b) == Rat(a[1] * b[2], a[2] * b[1])
RZero(a) == a[1] = 0
RLeq(a, b) == a[1] * b[2] <= b[1] * a[2]

\* The rows of a table in rowid order (SQLite scans a rowid table by rowid).
RECURSIVE ById(_)
ById(rows) ==
    IF rows = {} THEN <<>>
    ELSE LET r == CHOOSE x \in rows : \A y \in rows : x.id <= y.id
         IN  <<r>> \o ById(rows \ {r})

\* INTEGER PRIMARY KEY without AUTOINCREMENT: one more than the largest rowid.
NextId(rows) == IF rows = {} THEN 1 ELSE Max({r.id : r \in rows}) + 1

-----------------------------------------------------------------------------
(* SQL text: what TrackedDatabase.execute looks at *)

\* A statement's text is the sequence of its leading tokens, " " standing for
\* a run of whitespace; the rest of the text is carried by the fields op, a.
RECURSIVE Strip(_)
Strip(text) ==
    IF text # <<>> /\ Head(text) = " " THEN Strip(Tail(text)) ELSE text

\* str.split(maxsplit=1): the words of the stripped text.
Split(text) == SelectSeq(text, LAMBDA t : t # " ")

\* str.upper on the words the statements of the model start with.
Upper(w) ==
    CASE w \in {"insert", "Insert"} -> "INSERT"
      [] w \in {"update", "Update"} -> "UPDATE"
      [] w \in {"delete", "Delete"} -> "DELETE"
      [] w \in {"create", "Create"} -> "CREATE"
      [] w \in {"drop", "Drop"} -> "DROP"
      [] w \in {"alter", "Alter"} -> "ALTER"
      [] w \in {"replace", "Replace"} -> "REPLACE"
      [] w \in {"select", "Select"} -> "SELECT"
      [] w \in {"pragma", "Pragma"} -> "PRAGMA"
      [] OTHER -> w

WriteKeywords ==
    {"INSERT", "UPDATE", "DELETE", "CREATE", "DROP", "ALTER", "REPLACE"}

Stmt(text, op, a) == [text |-> text, op |-> op, a |-> a]

-----------------------------------------------------------------------------
(* The database: tables, constraints, statements *)

\* Columns that _migrations adds to an older database.
MigratedCols ==
    {"items.code", "items.unit_price", "atajados.este", "atajados.norte",
     "atajados.porcentaje"}

EmptyDb == [items |-> {}, atajados |-> {}, avances |-> {}, cols |-> MigratedCols]

\* The state a handler works on: the tables, whether the connection can still
\* write (rw), the manager's dirty flag and the signals emitted so far.
Work(i, t, v, rw, d) ==
    [items |-> i, atajados |-> t, avances |-> v, rw |-> rw, dirty |-> d,
     sig |-> <<>>]

Raised(s) == [raised |-> TRUE, s |-> s]
Done(s) == [raised |-> FALSE, s |-> s]

\* INSERT INTO items(code,name,unit,total,incidence,active) VALUES(?,?,?,?,?,0)
\* code is UNIQUE; unit_price and progress take their DEFAULT 0.
InsertItem(s, a) ==
    IF \E r \in s.items : r.code = a.code THEN Raised(s)
    ELSE Done([s EXCEPT !.items = @ \cup
            {[id |-> NextId(s.items), code |-> a.code, total |-> a.total,
              unit_price |-> Some(0), incidence |-> a.incidence, active |-> 0,
              progress |-> 0]}])

\* Variant of the statement on an items table whose code is not UNIQUE.
UpdateItem_no_unique(s, a) ==
    Done([s EXCEPT !.items =
            {IF r.id = a.id THEN [r EXCEPT ![a.field] = a.val] ELSE r : r \in @}])

\* UPDATE items SET <field>=? WHERE id=?
UpdateItem(s, a) ==
    LET new == {IF r.id = a.id THEN [r EXCEPT ![a.field] = a.val] ELSE r
                    : r \in s.items}
    IN  IF /\ a.field = "code"
           /\ \E r \in s.items : r.id = a.id
           /\ \E r \in s.items : r.id # a.id /\ r.code = a.val
        THEN Raised(s)
        ELSE Done([s EXCEPT !.items = new])

\* UPDATE items SET code=?,name=?,unit=?,total=?,incidence=? WHERE id=?
UpdateItemRow(s, a) ==
    LET new == {IF r.id = a.id
                THEN [r EXCEPT !.code = a.code, !.total = a.total,
                               !.incidence = a.incidence]
                ELSE r : r \in s.items}
    IN  IF /\ \E r \in s.items : r.id = a.id
           /\ \E r \in s.items : r.id # a.id /\ r.code = a.code
        THEN Raised(s)
        ELSE Done([s EXCEPT !.items = new])

\* DELETE FROM items WHERE id=?   (avances.item_id ... ON DELETE CASCADE)
DeleteItem(s, a) ==
    Done([s EXCEPT !.items = {r \in @ : r.id # a.id},
                   !.avances = {v \in @ : v.item_id # a.id}])

\* INSERT INTO atajados(comunidad, number, beneficiario, ci, coord_e, coord_n)
\* number is UNIQUE; the columns not named stay NULL.
InsertAtajado(s, a) ==
    IF \E r \in s.atajados : r.number = a.number THEN Raised(s)
    ELSE Done([s EXCEPT !.atajados = @ \cup
            {[id |-> NextId(s.atajados), number |-> a.number,
              coord_e |-> a.e, coord_n |-> a.n, este |-> NULL, norte |-> NULL,
              status |-> "NULL", porcentaje |-> NULL]}])

\* UPDATE atajados SET <field>=? WHERE id=?
UpdateAtajado(s, a) ==
    LET new == {IF r.id = a.id THEN [r EXCEPT ![a.field] = a.val] ELSE r
                    : r \in s.atajados}
    IN  IF /\ a.field = "number"
           /\ \E r \in s.atajados : r.id = a.id
           /\ \E r \in s.atajados : r.id # a.id /\ r.number = a.val
        THEN Raised(s)
        ELSE Done([s EXCEPT !.atajados = new])

\* DELETE FROM atajados WHERE id=?   (avances.atajado_id ... ON DELETE CASCADE)
DeleteAtajado(s, a) ==
    Done([s EXCEPT !.atajados = {r \in @ : r.id # a.id},
                   !.avances = {v \in @ : v.atajado_id # a.id}])

\* UPDATE atajados SET porcentaje=?, status=? WHERE number=?
UpdateEstado(s, a) ==
    Done([s EXCEPT !.atajados =
            {IF r.number = a.number
             THEN [r EXCEPT !.porcentaje = Some(a.porcentaje), !.status = a.status]
             ELSE r : r \in @}])

\* Variant of the statement without UNIQUE(atajado_id, item_id) and its
\* ON CONFLICT clause: every execution adds a row.
UpsertAvance_always_inserts(s, a) ==
    IF \/ ~ \E r \in s.atajados : r.id = a.atajado_id
       \/ ~ \E r \in s.items : r.id = a.item_id
    THEN Raised(s)
    ELSE Done([s EXCEPT !.avances = @ \cup
            {[id |-> NextId(s.avances), atajado_id |-> a.atajado_id,
              item_id |-> a.item_id, date |-> a.date,
              quantity |-> a.quantity, start_date |-> a.start_date,
              end_date |-> a.end_date, comment |-> a.comment]}])

\* INSERT INTO avances(...) VALUES(...) ON CONFLICT(atajado_id,item_id) DO UPDATE
\* with PRAGMA foreign_keys = ON: atajado_id must be an atajados.id and item_id
\* an items.id.
UpsertAvance(s, a) ==
    LET old == {v \in s.avances :
                    v.atajado_id = a.atajado_id /\ v.item_id = a.item_id}
        set(v) == [v EXCEPT !.date = a.date, !.quantity = a.quantity,
                            !.start_date = a.start_date,
                            !.end_date = a.end_date, !.comment = a.comment]
    IN  IF \/ ~ \E r \in s.atajados : r.id = a.atajado_id
           \/ ~ \E r \in s.items : r.id = a.item_id
        THEN Raised(s)
        ELSE IF old # {}
        THEN Done([s EXCEPT !.avances = (@ \ old) \cup {set(v) : v \in old}])
        ELSE Done([s EXCEPT !.avances = @ \cup
                {[id |-> NextId(s.avances), atajado_id |-> a.atajado_id,
                  item_id |-> a.item_id, date |-> a.date,
                  quantity |-> a.quantity, start_date |-> a.start_date,
                  end_date |-> a.end_date, comment |-> a.comment]}])

\* cursor.execute(sql, params): a statement that writes raises when the
\* database file can no longer be written.
CursorExecute(s, st) ==
    IF st.op \in {"select", "pragma", "empty"} THEN Done(s)
    ELSE IF ~s.rw THEN Raised(s)
    ELSE CASE st.op = "create_index" -> Done(s)
           [] st.op = "insert_item" -> InsertItem(s, st.a)
           [] st.op = "update_item" -> UpdateItem(s, st.a)
           [] st.op = "update_item_row" -> UpdateItemRow(s, st.a)
           [] st.op = "delete_item" -> DeleteItem(s, st.a)
           [] st.op = "insert_atajado" -> InsertAtajado(s, st.a)
           [] st.op = "update_atajado" -> UpdateAtajado(s, st.a)
           [] st.op = "delete_atajado" -> DeleteAtajado(s, st.a)
           [] st.op = "update_estado" -> UpdateEstado(s, st.a)
           [] st.op = "upsert_avance" -> UpsertAvance(s, st.a)

\* Database.execute: cursor.execute, then conn.commit.
DatabaseExecute(s, st) == CursorExecute(s, st)

-----------------------------------------------------------------------------
(* ProyectoManager.mark_modified and TrackedDatabase.execute *)

\* An emitted signal and its argument as text.
Signal(name, arg) == [name |-> name, arg |-> arg]

mark_modified(s) ==
    IF ~s.dirty
    THEN [s EXCEPT !.dirty = TRUE, !.sig = Append(@, Signal("dirtyChanged", "True"))]
    ELSE s

\* Variant of TrackedDatabase.execute that marks the project as modified
\* before it runs the statement.
TrackedExecute_marks_first(s, st) ==
    LET words == Split(Strip(st.text))
        m == IF words # <<>> /\ Upper(words[1]) \in WriteKeywords
             THEN mark_modified(s) ELSE s
        r == DatabaseExecute(m, st)
    IN  IF r.raised THEN r
        ELSE IF words = <<>> THEN Raised(r.s)
        ELSE r

\* super().execute first; the keyword test runs only if it returned, and
\* split()[0] of a text without words raises IndexError.
TrackedExecute(s, st) ==
    LET r == DatabaseExecute(s, st)
        words == Split(Strip(st.text))
    IN  IF r.raised THEN r
        ELSE IF words = <<>> THEN Raised(r.s)
        ELSE IF Upper(words[1]) \in WriteKeywords THEN Done(mark_modified(r.s))
        ELSE r

-----------------------------------------------------------------------------
(* Database.get_project_progress *)

RECURSIVE SumQuantity(_)
SumQuantity(rows) ==
    IF rows = {} THEN 0
    ELSE LET v == CHOOSE x \in rows : TRUE
         IN  v.quantity + SumQuantity(rows \ {v})

\* Variant of the query with SUM in the place of AVG.
AvgQuantity_sum(avs, iid) ==
    LET rows == {v \in avs : v.item_id = iid}
    IN  IF rows = {} THEN RInt(0) ELSE RInt(SumQuantity(rows))

\* SELECT COALESCE(AVG(quantity), 0) FROM avances WHERE item_id = ?
AvgQuantity(avs, iid) ==
    LET rows == {v \in avs : v.item_id = iid}
    IN  IF rows = {} THEN RInt(0)
        ELSE Rat(SumQuantity(rows), Cardinality(rows))

\* round(x, 0): to the nearest integer, a tie to the even one.
Round0(x) ==
    LET q == x[1] \div x[2]
        rem == x[1] - q * x[2]
    IN  RInt(IF 2 * rem > x[2] THEN q + 1
             ELSE IF 2 * rem < x[2] THEN q
             ELSE IF q % 2 = 0 THEN q ELSE q + 1)

\* ItemsTab._calc_global_pct, with _atajados_total as refresh has just read
\* it: COUNT(*) FROM atajados, or 1 when there is none.
_calc_global_pct(ats, avs, iid) ==
    LET ejecutado == SumQuantity({v \in avs : v.item_id = iid})
        _atajados_total == IF ats = {} THEN 1 ELSE Cardinality(ats)
        pct == Rat(ejecutado, _atajados_total)
    IN  Round0(IF RLeq(pct, RInt(100)) THEN pct ELSE RInt(100))

\* COALESCE(unit_price, incidence, 0) AS pu
Pu(r) == IF ~IsNull(r.unit_price) THEN Val(r.unit_price) ELSE r.incidence

\* pct of one row of the loop: AVG of its avances if active, else progress.
ItemPct(r, avs) ==
    IF r.active # 0 THEN AvgQuantity(avs, r.id) ELSE RInt(r.progress)

\* The for loop: acc = <<total_cost, executed>>.
RECURSIVE ProgressLoop(_, _, _)
ProgressLoop(rows, avs, acc) ==
    IF rows = <<>> THEN acc
    ELSE LET r == Head(rows)
             cost == r.total * Pu(r)
             pct == ItemPct(r, avs)
         IN  ProgressLoop(Tail(rows), avs,
                <<acc[1] + cost,
                  RAdd(acc[2], RMul(RDiv(pct, RInt(100)), RInt(cost)))>>)

get_project_progress(its, avs) ==
    IF its = {} THEN RInt(0)
    ELSE LET acc == ProgressLoop(ById(its), avs, <<0, RInt(0)>>)
         IN  IF acc[1] # 0
             THEN RMul(RDiv(acc[2], RInt(acc[1])), RInt(100))
             ELSE RInt(0)

-----------------------------------------------------------------------------
(* AvanceTab._recalcular_estado *)

\* round(x, 1): to the nearest tenth, ties to even.
Round1(x) ==
    LET n == 10 * x[1]
        d == x[2]
        q == n \div d
        rem == n - q * d
        t == IF 2 * rem > d THEN q + 1
             ELSE IF 2 * rem < d THEN q
             ELSE IF q % 2 = 0 THEN q ELSE q + 1
    IN  Rat(t, 10)

\* The rows of "items i LEFT JOIN avances a ON a.item_id = i.id AND
\* a.atajado_id = ? WHERE i.active = 1": <<total, incidence, quantity or 0>>.
RECURSIVE EstadoRows(_, _, _)
EstadoRows(irows, avs, cur) ==
    IF irows = <<>> THEN <<>>
    ELSE LET i == Head(irows)
             m == ById({v \in avs : v.item_id = i.id /\ v.atajado_id = cur})
             mine == IF m = <<>> THEN <<<<i.total, i.incidence, 0>>>>
                     ELSE [k \in 1..Len(m) |->
                              <<i.total, i.incidence, m[k].quantity>>]
         IN  mine \o EstadoRows(Tail(irows), avs, cur)

\* The for loop: acc = <<total_val, ejec_val>>.
RECURSIVE EstadoLoop(_, _, _)
EstadoLoop(rows, n_ata, acc) ==
    IF rows = <<>> THEN acc
    ELSE LET qty == Rat(Head(rows)[1], n_ata)
             val == RMul(qty, RInt(Head(rows)[2]))
             pct == Head(rows)[3]
         IN  EstadoLoop(Tail(rows), n_ata,
                <<RAdd(acc[1], val),
                  RAdd(acc[2], RDiv(RMul(val, RInt(pct)), RInt(100)))>>)

\* Variant of _recalcular_estado's query without WHERE i.active = 1.
avg_pct_all_items(its, ats, avs, cur) ==
    LET n_ata == IF Cardinality(ats) = 0 THEN 1 ELSE Cardinality(ats)
        rows == EstadoRows(ById(its), avs, cur)
        acc == EstadoLoop(rows, n_ata, <<RInt(0), RInt(0)>>)
    IN  IF ~RZero(acc[1])
        THEN Round1(RMul(RDiv(acc[2], acc[1]), RInt(100)))
        ELSE RInt(0)

avg_pct(its, ats, avs, cur) ==
    LET n_ata == IF Cardinality(ats) = 0 THEN 1 ELSE Cardinality(ats)
        rows == EstadoRows(ById({i \in its : i.active = 1}), avs, cur)
        acc == EstadoLoop(rows, n_ata, <<RInt(0), RInt(0)>>)
    IN  IF ~RZero(acc[1])
        THEN Round1(RMul(RDiv(acc[2], acc[1]), RInt(100)))
        ELSE RInt(0)

estado(pct) == IF RLeq(RInt(100), pct) THEN "Ejecutado" ELSE "En ejecucion"

\* Variant of _recalcular_estado that writes through the raw cursor, as the
\* loop of save_progress does.
_recalcular_estado_raw(s, cur) ==
    LET p == avg_pct(s.items, s.atajados, s.avances, cur)
    IN  DatabaseExecute(s,
            Stmt(<<"UPDATE">>, "update_estado",
                 [number |-> cur, porcentaje |-> p, status |-> estado(p)]))

_recalcular_estado(s, cur) ==
    LET p == avg_pct(s.items, s.atajados, s.avances, cur)
    IN  TrackedExecute(s,
            Stmt(<<"UPDATE">>, "update_estado",
                 [number |-> cur, porcentaje |-> p, status |-> estado(p)]))

-----------------------------------------------------------------------------
(* Text the user types or picks, and its conversions *)

NumRange == (-1..3) \cup {25 * k : k \in 0..4}

\* float(text) / int(text): the number a numeric text spells, NULL where the
\* conversion raises ValueError.
float(t) ==
    IF \E n \in NumRange : ToString(n) = t
    THEN Some(CHOOSE n \in NumRange : ToString(n) = t)
    ELSE NULL

\* str.rstrip(chars) on a text given as its tokens.
RECURSIVE rstrip(_, _)
rstrip(toks, chars) ==
    IF toks # <<>> /\ toks[Len(toks)] \in chars
    THEN rstrip(SubSeq(toks, 1, Len(toks) - 1), chars)
    ELSE toks

\* The text left of a combo entry once the trailing characters are stripped.
Stripped(toks, chars) ==
    LET t == rstrip(toks, chars) IN IF Len(t) = 1 THEN t[1] ELSE "?"

\* ItemsTab progress combo: "0%", "25%", "50%", "75%", "100%"
ItemPctOptions == {<<ToString(25 * k), "%">> : k \in 0..4}
\* AvanceTab progress combo: "0 %", "25 %", "50 %", "75 %", "100 %"
AvancePctOptions == {<<ToString(25 * k), " ", "%">> : k \in 0..4}

-----------------------------------------------------------------------------
(* ItemsTab handlers *)

\* _open_add.save
ItemsAddSave(s, code, qty, pu) ==
    IF \E r \in s.items : r.code = code THEN Done(s)
    ELSE IF IsNull(float(qty)) \/ IsNull(float(pu)) THEN Done(s)
    ELSE TrackedExecute(s,
            Stmt(<<"INSERT">>, "insert_item",
                 [code |-> code, total |-> Val(float(qty)),
                  incidence |-> Val(float(pu))]))

\* _edit_item.update
ItemsEditUpdate(s, iid, code, qty, pu) ==
    IF \E r \in s.items : r.code = code /\ r.id # iid THEN Done(s)
    ELSE IF IsNull(float(qty)) \/ IsNull(float(pu)) THEN Done(s)
    ELSE TrackedExecute(s,
            Stmt(<<"UPDATE">>, "update_item_row",
                 [id |-> iid, code |-> code, total |-> Val(float(qty)),
                  incidence |-> Val(float(pu))]))

\* _on_cell_edited for the columns code, total (Cant.) and incidence (P.U.)
ItemsCellEdited(s, iid, campo, text) ==
    IF campo \in {"total", "incidence"}
    THEN IF IsNull(float(text)) THEN Done(s)
         ELSE TrackedExecute(s,
                Stmt(<<"UPDATE">>, "update_item",
                     [id |-> iid, field |-> campo, val |-> Val(float(text))]))
    ELSE TrackedExecute(s,
            Stmt(<<"UPDATE">>, "update_item",
                 [id |-> iid, field |-> campo, val |-> text]))

\* _toggle_active
ItemsToggleActive(s, idx, iid) ==
    TrackedExecute(s,
        Stmt(<<"UPDATE">>, "update_item",
             [id |-> iid, field |-> "active", val |-> IF idx # 0 THEN 1 ELSE 0]))

\* _update_pct
ItemsUpdatePct(s, txt, iid) ==
    TrackedExecute(s,
        Stmt(<<"UPDATE">>, "update_item",
             [id |-> iid, field |-> "progress",
              val |-> Val(float(Stripped(txt, {"%"})))]))

\* _import_items: one INSERT per row of the file; the first exception ends
\* the loop and is reported, the rows inserted before it stay.
RECURSIVE ItemsImportLoop(_, _)
ItemsImportLoop(s, rows) ==
    IF rows = <<>> THEN s
    ELSE LET row == Head(rows)
         IN  IF IsNull(float(row.qty)) \/ IsNull(float(row.pu)) THEN s
             ELSE LET r == TrackedExecute(s,
                            Stmt(<<"INSERT">>, "insert_item",
                                 [code |-> row.code,
                                  total |-> Val(float(row.qty)),
                                  incidence |-> Val(float(row.pu))]))
                  IN  IF r.raised THEN r.s
                      ELSE ItemsImportLoop(r.s, Tail(rows))

ItemsImport(s, rows) == Done(ItemsImportLoop(s, rows))

\* _delete_item_by_id, answered Yes
ItemsDelete(s, iid) ==
    TrackedExecute(s, Stmt(<<"DELETE">>, "delete_item", [id |-> iid]))

\* _delete_selected, answered Yes: one DELETE per selected id
RECURSIVE ItemsDeleteSelected(_, _)
ItemsDeleteSelected(s, ids) ==
    IF ids = <<>> THEN Done(s)
    ELSE LET r == ItemsDelete(s, Head(ids))
         IN  IF r.raised THEN r ELSE ItemsDeleteSelected(r.s, Tail(ids))

-----------------------------------------------------------------------------
(* AtajadosTab handlers *)

\* open_add.on_save; named: the fields Comunidad and Nombre are filled in
AtajadosAddSave(s, named, num, e, n) ==
    IF ~named \/ IsNull(float(num)) THEN Done(s)
    ELSE IF \E r \in s.atajados : r.number = Val(float(num)) THEN Done(s)
    ELSE IF IsNull(float(e)) \/ IsNull(float(n)) THEN Done(s)
    ELSE TrackedExecute(s,
            Stmt(<<"INSERT">>, "insert_atajado",
                 [number |-> Val(float(num)), e |-> Val(float(e)),
                  n |-> Val(float(n))]))

\* Variant of import_atajados without the test for an existing number: the
\* INSERT of such a row violates UNIQUE and ends the loop.
RECURSIVE AtajadosImportLoop_no_skip(_, _, _)
AtajadosImportLoop_no_skip(s, rows, repetidos) ==
    IF rows = <<>> THEN [s |-> s, repetidos |-> repetidos, failed |-> FALSE]
    ELSE LET row == Head(rows)
         IN  IF IsNull(float(row.e)) \/ IsNull(float(row.n))
                \/ IsNull(float(row.num))
             THEN [s |-> s, repetidos |-> repetidos, failed |-> TRUE]
             ELSE LET r == TrackedExecute(s,
                            Stmt(<<"INSERT">>, "insert_atajado",
                                 [number |-> Val(float(row.num)),
                                  e |-> Val(float(row.e)),
                                  n |-> Val(float(row.n))]))
                  IN  IF r.raised
                      THEN [s |-> r.s, repetidos |-> repetidos, failed |-> TRUE]
                      ELSE AtajadosImportLoop_no_skip(r.s, Tail(rows), repetidos)

\* import_atajados: rows whose number exists are skipped and counted in
\* repetidos, the first exception ends the loop (failed) and is reported
\* instead of the count.
RECURSIVE AtajadosImportLoop(_, _, _)
AtajadosImportLoop(s, rows, repetidos) ==
    IF rows = <<>> THEN [s |-> s, repetidos |-> repetidos, failed |-> FALSE]
    ELSE LET row == Head(rows)
         IN  IF IsNull(float(row.e)) \/ IsNull(float(row.n))
                \/ IsNull(float(row.num))
             THEN [s |-> s, repetidos |-> repetidos, failed |-> TRUE]
             ELSE IF \E r \in s.atajados : r.number = Val(float(row.num))
             THEN AtajadosImportLoop(s, Tail(rows), repetidos + 1)
             ELSE LET r == TrackedExecute(s,
                            Stmt(<<"INSERT">>, "insert_atajado",
                                 [number |-> Val(float(row.num)),
                                  e |-> Val(float(row.e)),
                                  n |-> Val(float(row.n))]))
                  IN  IF r.raised
                      THEN [s |-> r.s, repetidos |-> repetidos, failed |-> TRUE]
                      ELSE AtajadosImportLoop(r.s, Tail(rows), repetidos)

AtajadosImport(s, rows) ==
    LET w == AtajadosImportLoop(s, rows, 0)
    IN  [raised |-> FALSE, s |-> w.s, repetidos |-> w.repetidos,
         failed |-> w.failed]

\* on_cell_changed for the columns number, coord_e, coord_n
AtajadosCellChanged(s, iid, field, text) ==
    IF IsNull(float(text)) THEN Done(s)
    ELSE TrackedExecute(s,
            Stmt(<<"UPDATE">>, "update_atajado",
                 [id |-> iid, field |-> field, val |-> Val(float(text))]))

\* delete_atajado, answered Yes
AtajadosDelete(s, iid) ==
    TrackedExecute(s, Stmt(<<"DELETE">>, "delete_atajado", [id |-> iid]))

-----------------------------------------------------------------------------
(* AvanceTab handlers *)

\* load_items: the new <<current_atajado, table>> for the selector text, whose
\* leading digits are num (NULL if it has none).
load_items(its, num, cur) ==
    IF IsNull(num) THEN <<cur, <<>>>>
    ELSE LET rows == ById({i \in its : i.active = 1})
         IN  <<num, [k \in 1..Len(rows) |-> rows[k].id]>>

\* The loop of save_progress over the rows of the table: each row is written
\* through the raw cursor; a row that raises is reported and skipped.
\* Returns <<state, filas_ok>>.
RECURSIVE SaveRows(_, _, _, _, _, _)
SaveRows(s, cur, tbl, entry, today, ok) ==
    IF tbl = <<>> THEN <<s, ok>>
    ELSE LET e == Head(entry)
             r == CursorExecute(s,
                    Stmt(<<" ", "INSERT">>, "upsert_avance",
                         [atajado_id |-> cur, item_id |-> Head(tbl),
                          date |-> today,
                          quantity |-> Val(float(Stripped(e.pct, {" ", "%"}))),
                          start_date |-> e.ini, end_date |-> e.fin,
                          comment |-> e.com]))
         IN  SaveRows(r.s, cur, Tail(tbl), Tail(entry), today,
                      IF r.raised THEN ok ELSE ok + 1)

\* save_progress; MainWindow builds the tab without a save_callback.
save_progress(s, cur, tbl, entry, today) ==
    IF IsNull(cur) THEN [raised |-> FALSE, s |-> s, filas_ok |-> 0]
    ELSE LET w == SaveRows(s, Val(cur), tbl, entry, today, 0)
         IN  IF w[2] = 0 THEN [raised |-> FALSE, s |-> w[1], filas_ok |-> 0]
             ELSE LET r == _recalcular_estado(w[1], Val(cur))
                  IN  [raised |-> r.raised, s |-> r.s, filas_ok |-> w[2]]

-----------------------------------------------------------------------------
(* Files and paths *)

\* A path is its stem and its suffix; Path.with_suffix replaces the suffix.
Stems == {"a", "b"}
Exts == {"", ".zip", ".spkg"}
FilePaths == [stem : Stems, ext : Exts]
P(stem, ext) == [stem |-> stem, ext |-> ext]
with_suffix(p, ext) == [p EXCEPT !.ext = ext]
str(p) == p.stem \o p.ext

\* IMAGES_DIR is empty and no package holds an image. An image is
\* [num, name]: the file name in the directory IMAGES_DIR / str(num).
NoImages == [dir |-> {}, mine |-> {}, pkg |-> [p \in FilePaths |-> {}]]

\* What a path holds: nothing, a file that is no zip archive, or a zip
\* archive with or without the entry atajados.db.
NoFile == [kind |-> "none", hasdb |-> FALSE, db |-> EmptyDb]
NotZip == [kind |-> "notzip", hasdb |-> FALSE, db |-> EmptyDb]
ZipNoDb == [kind |-> "zip", hasdb |-> FALSE, db |-> EmptyDb]
Package(d) == [kind |-> "zip", hasdb |-> TRUE, db |-> d]

-----------------------------------------------------------------------------
(* Database.open on the atajados.db of a package *)

\* _init_tables: every CREATE TABLE IF NOT EXISTS finds its table; CREATE
\* UNIQUE INDEX ... ON items(code) needs the column code, and one row per code.
_init_tables(d) ==
    IF \/ "items.code" \notin d.cols
       \/ \E r1, r2 \in d.items : r1.id # r2.id /\ r1.code = r2.code
    THEN Raised(d)
    ELSE Done(d)

\* Variant of _migrations that copies incidence into unit_price on every open,
\* whether or not the column was just added.
_migrations_always_copies(d) ==
    LET its == {[r EXCEPT !.unit_price = Some(r.incidence)] : r \in d.items}
    IN  Done([d EXCEPT !.items = its, !.cols = MigratedCols])

_migrations(d) ==
    LET has(c) == c \in d.cols
        its == {[r EXCEPT
                  !.code = IF has("items.code") THEN @ ELSE "",
                  !.unit_price = IF has("items.unit_price") THEN @
                                 ELSE Some(r.incidence)] : r \in d.items}
        ats == {[r EXCEPT
                  !.este = IF has("atajados.este") THEN @ ELSE Some(r.coord_e),
                  !.norte = IF has("atajados.norte") THEN @ ELSE Some(r.coord_n),
                  !.porcentaje = IF has("atajados.porcentaje") THEN @
                                 ELSE Some(RInt(0))] : r \in d.atajados}
        new == [d EXCEPT !.items = its, !.atajados = ats, !.cols = MigratedCols]
    IN  IF \E r1, r2 \in its : r1.id # r2.id /\ r1.code = r2.code
        THEN Raised(d)
        ELSE Done(new)

DatabaseOpen(d) ==
    LET r == _init_tables(d) IN IF r.raised THEN r ELSE _migrations(r.s)

-----------------------------------------------------------------------------
(* ProyectoManager: new_project, open_project, save_project *)

\* The manager's state a method works on; newdb: the method has put a new
\* TrackedDatabase object in proyecto.db.
Mgr == [db |-> [items |-> items, atajados |-> atajados, avances |-> avances,
                cols |-> cols],
        db_path |-> db_path, workfile |-> workfile, temp_dir |-> temp_dir,
        dirty |-> dirty, path |-> path, fs |-> fs, sig |-> <<>>,
        ret |-> "None", newdb |-> FALSE, images |-> images]

\* _cleanup: rmtree(self._temp_dir, ignore_errors=True). The database file in
\* it is open: it is removed where the platform allows that (gone = TRUE) and
\* stays where an open file cannot be removed (gone = FALSE).
_cleanup(m, gone) ==
    IF m.temp_dir
    THEN [m EXCEPT !.temp_dir = FALSE, !.workfile = IF gone THEN FALSE ELSE @]
    ELSE m

new_project(m, gone) ==
    [_cleanup(m, gone) EXCEPT
        !.db = EmptyDb, !.db_path = ":memory:", !.workfile = FALSE,
        !.path = NULL, !.dirty = FALSE, !.newdb = TRUE,
        !.images.mine = {},
        !.sig = <<Signal("pathChanged", ""), Signal("dirtyChanged", "False")>>]

open_project(m, p, gone) ==
    LET c == _cleanup(m, gone)
        f == c.fs[p]
        o == DatabaseOpen(f.db)
    IN  IF f.kind # "zip" THEN [c EXCEPT !.ret = "raised"]
        ELSE IF ~f.hasdb THEN [c EXCEPT !.ret = "raised"]
        ELSE IF o.raised THEN [c EXCEPT !.ret = "raised"]
        ELSE [c EXCEPT
                !.db = o.s, !.db_path = "file", !.workfile = TRUE,
                !.temp_dir = TRUE, !.path = Some(p), !.dirty = FALSE,
                !.newdb = TRUE, !.images.mine = c.images.pkg[p],
                !.sig = <<Signal("pathChanged", str(p)),
                          Signal("dirtyChanged", "False")>>]

\* Variants of save_project: one that leaves the dirty flag as it is, one that
\* resets the flag before it looks at the path, one that keeps the suffix of
\* the path it is given.
save_project_keeps_dirty(m, arg) ==
    LET m1 == IF ~IsNull(arg)
              THEN [m EXCEPT !.path = Some(with_suffix(Val(arg), ".spkg"))]
              ELSE m
        target_path == Val(m1.path)
    IN  IF IsNull(m1.path) THEN [m1 EXCEPT !.ret = "False"]
        ELSE IF m1.db_path # ":memory:" /\ ~m1.workfile
        THEN [m1 EXCEPT !.ret = "raised"]
        ELSE [m1 EXCEPT
                !.fs[target_path] = Package(m1.db),
                !.sig = <<Signal("pathChanged", str(target_path))>>,
                !.ret = "True"]

save_project_resets_first(m, arg) ==
    LET m1 == IF ~IsNull(arg)
              THEN [m EXCEPT !.path = Some(with_suffix(Val(arg), ".spkg")),
                             !.dirty = FALSE]
              ELSE [m EXCEPT !.dirty = FALSE]
        target_path == Val(m1.path)
    IN  IF IsNull(m1.path) THEN [m1 EXCEPT !.ret = "False"]
        ELSE IF m1.db_path # ":memory:" /\ ~m1.workfile
        THEN [m1 EXCEPT !.ret = "raised"]
        ELSE [m1 EXCEPT
                !.fs[target_path] = Package(m1.db),
                !.sig = <<Signal("pathChanged", str(target_path)),
                          Signal("dirtyChanged", "False")>>,
                !.ret = "True"]

save_project_keeps_suffix(m, arg) ==
    LET m1 == IF ~IsNull(arg) THEN [m EXCEPT !.path = arg] ELSE m
        target_path == Val(m1.path)
    IN  IF IsNull(m1.path) THEN [m1 EXCEPT !.ret = "False"]
        ELSE IF m1.db_path # ":memory:" /\ ~m1.workfile
        THEN [m1 EXCEPT !.ret = "raised"]
        ELSE [m1 EXCEPT
                !.fs[target_path] = Package(m1.db), !.dirty = FALSE,
                !.sig = <<Signal("pathChanged", str(target_path)),
                          Signal("dirtyChanged", "False")>>,
                !.ret = "True"]

\* save_project(path); arg is NULL for save_project(None).
save_project(m, arg) ==
    LET m1 == IF ~IsNull(arg)
              THEN [m EXCEPT !.path = Some(with_suffix(Val(arg), ".spkg"))]
              ELSE m
        target_path == Val(m1.path)
    IN  IF IsNull(m1.path) THEN [m1 EXCEPT !.ret = "False"]
        ELSE IF m1.db_path # ":memory:" /\ ~m1.workfile
        THEN [m1 EXCEPT !.ret = "raised"]
        ELSE [m1 EXCEPT
                !.fs[target_path] = Package(m1.db), !.dirty = FALSE,
                !.images.pkg[target_path] = m1.images.dir,
                !.sig = <<Signal("pathChanged", str(target_path)),
                          Signal("dirtyChanged", "False")>>,
                !.ret = "True"]

-----------------------------------------------------------------------------
(* MainWindow: the save prompt and the flows it guards *)

\* _save_project_as; dlg is the path picked in the save dialog, NULL when the
\* dialog is cancelled.
_save_project_as(m, dlg) ==
    IF IsNull(dlg) THEN [m EXCEPT !.ret = "False"] ELSE save_project(m, dlg)

\* _save_project
_save_project(m, dlg) ==
    IF IsNull(m.path) THEN _save_project_as(m, dlg) ELSE save_project(m, NULL)

\* Variant of _maybe_save that runs the save for the answer Yes and lets the
\* operation continue whatever the save returned.
_maybe_save_ignores_result(m, resp, dlg) ==
    IF ~m.dirty THEN [m EXCEPT !.ret = "True"]
    ELSE IF resp = "Cancel" THEN [m EXCEPT !.ret = "False"]
    ELSE IF resp = "No" THEN [m EXCEPT !.ret = "True"]
    ELSE LET r == _save_project(m, dlg)
         IN  IF r.ret = "raised" THEN r ELSE [r EXCEPT !.ret = "True"]

\* _maybe_save; resp is the button answered in the prompt. ret is what it
\* returns, "raised" when the save raises.
_maybe_save(m, resp, dlg) ==
    IF ~m.dirty THEN [m EXCEPT !.ret = "True"]
    ELSE IF resp = "Cancel" THEN [m EXCEPT !.ret = "False"]
    ELSE IF resp = "No" THEN [m EXCEPT !.ret = "True"]
    ELSE _save_project(m, dlg)

\* _new_project
_new_project(m, resp, dlg, gone) ==
    LET s == _maybe_save(m, resp, dlg)
    IN  IF s.ret # "True" THEN s
        ELSE new_project([s EXCEPT !.ret = "None"], gone)

\* _open_project; p is the path picked in the open dialog, NULL when the
\* dialog is cancelled. An exception of open_project is shown and swallowed.
_open_project(m, resp, dlg, p, gone) ==
    LET s == _maybe_save(m, resp, dlg)
    IN  IF s.ret # "True" THEN s
        ELSE IF IsNull(p) THEN [s EXCEPT !.ret = "None"]
        ELSE open_project([s EXCEPT !.ret = "None"], Val(p), gone)

\* closeEvent: event.accept() and manager.close() when _maybe_save returns
\* True, event.ignore() otherwise.
closeEvent(m, resp, dlg, gone) ==
    LET s == _maybe_save(m, resp, dlg)
    IN  IF s.ret # "True" THEN s
        ELSE [_cleanup(s, gone) EXCEPT !.ret = "accept"]

-----------------------------------------------------------------------------
(* Actions: one per handler *)

\* The tabs hold proyecto.db; it writes while it is in memory or its file
\* exists.
CanWrite == db_path = ":memory:" \/ workfile
Now == Work(items, atajados, avances, CanWrite, dirty)

Last(op, ret, sig, info) == [op |-> op, ret |-> ret, sig |-> sig, info |-> info]
Outcome(r) == IF r.raised THEN "raised" ELSE "ok"

fileVars == <<cols, db_path, workfile, temp_dir, path, fs, images>>
mgrVars == <<cols, db_path, workfile, temp_dir, path, fs, images, window>>

\* MainWindow._update_title on a project with the dirty flag d and the path
\* p: setWindowTitle("*" if dirty, then the application's name and p.name or
\* "Sin titulo").
_update_title(w, d, p) ==
    [w EXCEPT !.title = [star |-> d,
                         name |-> IF IsNull(p) THEN "Sin titulo"
                                  ELSE str(Val(p))]]

\* dirtyChanged and pathChanged are connected to _update_title: the window
\* w after a call that emitted the signals sig and left dirty = d, path = p.
Emitted(w, sig, d, p) == IF sig # <<>> THEN _update_title(w, d, p) ELSE w
uiVars == <<at_text, current_atajado, table>>

\* The end of a tab handler whose result is r.
TabDone(op, r, info) ==
    /\ items' = r.s.items
    /\ atajados' = r.s.atajados
    /\ avances' = r.s.avances
    /\ dirty' = r.s.dirty
    /\ last' = Last(op, Outcome(r), r.s.sig, info)
    /\ window' = Emitted(window, r.s.sig, r.s.dirty, path)
    /\ UNCHANGED <<fileVars, uiVars>>

\* What a handler was given, kept in last.info by the specifications whose
\* properties speak about it (those whose inputs D have the field note).
Noted(D, x) == IF "note" \in DOMAIN D THEN x ELSE <<>>

ItemIds == {r.id : r \in items}
AtajadoIds == {r.id : r \in atajados}
Texts(S) == {ToString(n) : n \in S} \cup {"x"}

\* A call of TrackedDatabase.execute(sql, params) with any of the statements
\* of D, whatever the spelling of its first word.
Execute(D) ==
    \E st \in D.stmts :
        TabDone("execute", TrackedExecute(Now, st), st.text)

ItemsTab_add(D) ==
    \E code \in D.codes, qty \in D.qtys, pu \in D.pus :
        /\ NextId(items) <= D.maxitem
        /\ TabDone("items_add", ItemsAddSave(Now, code, qty, pu),
                   Noted(D, [code |-> code]))

ItemsTab_edit(D) ==
    \E iid \in ItemIds, code \in D.codes, qty \in D.qtys, pu \in D.pus :
        TabDone("items_edit", ItemsEditUpdate(Now, iid, code, qty, pu),
                Noted(D, [id |-> iid, code |-> code]))

ItemsTab_cell_edited(D) ==
    \E iid \in ItemIds :
        \/ \E t \in D.codes :
             TabDone("items_cell", ItemsCellEdited(Now, iid, "code", t),
                     Noted(D, [id |-> iid, campo |-> "code", text |-> t]))
        \/ \E t \in D.qtys :
             TabDone("items_cell", ItemsCellEdited(Now, iid, "total", t),
                     Noted(D, [id |-> iid, campo |-> "total", text |-> t]))
        \/ \E t \in D.pus :
             TabDone("items_cell", ItemsCellEdited(Now, iid, "incidence", t),
                     Noted(D, [id |-> iid, campo |-> "incidence", text |-> t]))

ItemsTab_toggle_active ==
    \E iid \in ItemIds, idx \in {0, 1} :
        TabDone("items_toggle", ItemsToggleActive(Now, idx, iid), <<>>)

\* The progress combo exists for the items shown as inactive.
ItemsTab_update_pct(D) ==
    \E r \in items, txt \in D.itempcts :
        /\ r.active = 0
        /\ TabDone("items_pct", ItemsUpdatePct(Now, txt, r.id),
                   Noted(D, [id |-> r.id, txt |-> txt]))

ItemsTab_import(D) ==
    \E rows \in D.itemfiles :
        /\ NextId(items) + Len(rows) - 1 <= D.maxitem
        /\ TabDone("items_import", ItemsImport(Now, rows), Noted(D, rows))

ItemsTab_delete ==
    \E iid \in ItemIds :
        TabDone("items_delete", ItemsDelete(Now, iid), <<>>)

\* _delete_selected with every row selected
ItemsTab_delete_selected ==
    /\ ItemIds # {}
    /\ TabDone("items_delete",
               ItemsDeleteSelected(Now,
                   [k \in 1..Len(ById(items)) |-> ById(items)[k].id]), <<>>)

AtajadosTab_add(D) ==
    \E named \in BOOLEAN, num \in D.nums, e \in D.coords, n \in D.coords :
        /\ NextId(atajados) <= D.maxatajado
        /\ TabDone("atajados_add", AtajadosAddSave(Now, named, num, e, n),
                   Noted(D, [named |-> named, num |-> num, e |-> e, n |-> n]))

AtajadosTab_import(D) ==
    \E rows \in D.atajadofiles :
        /\ NextId(atajados) + Len(rows) - 1 <= D.maxatajado
        /\ LET r == AtajadosImport(Now, rows)
           IN  TabDone("atajados_import", r,
                       Noted(D, [rows |-> rows, repetidos |-> r.repetidos,
                                 failed |-> r.failed]))

AtajadosTab_cell_changed(D) ==
    \E iid \in AtajadoIds :
        \/ \E t \in D.nums :
             TabDone("atajados_cell",
                     AtajadosCellChanged(Now, iid, "number", t),
                     Noted(D, [id |-> iid, field |-> "number", text |-> t]))
        \/ \E t \in D.coords, f \in {"coord_e", "coord_n"} :
             TabDone("atajados_cell",
                     AtajadosCellChanged(Now, iid, f, t),
                     Noted(D, [id |-> iid, field |-> f, text |-> t]))

AtajadosTab_delete ==
    \E iid \in AtajadoIds :
        TabDone("atajados_delete", AtajadosDelete(Now, iid), <<>>)

\* at_combo.currentTextChanged -> load_items: the user picks an entry or
\* types a text; num is the number the text starts with, NULL if none.
AvanceTab_select(D) ==
    \E num \in D.selections :
        LET l == load_items(items, num, current_atajado)
        IN  /\ at_text' = num
            /\ current_atajado' = l[1]
            /\ table' = l[2]
            /\ last' = Last("load_items", "ok", <<>>, <<>>)
            /\ UNCHANGED <<items, atajados, avances, dirty, mgrVars>>

\* refresh_btn.clicked -> _populate_selector
AvanceTab_populate ==
    LET nums == {r.number : r \in atajados}
        first == Some(Min(nums))
        l == load_items(items, first, current_atajado)
    IN  /\ IF nums # {}
           THEN at_text' = first /\ current_atajado' = l[1] /\ table' = l[2]
           ELSE at_text' = NULL /\ UNCHANGED <<current_atajado, table>>
        /\ last' = Last("populate_selector", "ok", <<>>, <<>>)
        /\ UNCHANGED <<items, atajados, avances, dirty, mgrVars>>

\* save_btn.clicked -> save_progress, with what the user entered in each row
AvanceTab_save(D) ==
    \E entry \in [1..Len(table) -> D.entries], today \in D.days :
        LET r == save_progress(Now, current_atajado, table, entry, today)
        IN  TabDone("save_progress", r,
                    [filas_ok |-> r.filas_ok, entry |-> entry, today |-> today])

\* DashboardTab.refresh
Dashboard_refresh ==
    /\ last' = Last("get_project_progress", "ok", <<>>,
                    get_project_progress(items, avances))
    /\ UNCHANGED <<items, atajados, avances, dirty, mgrVars, uiVars>>

\* The tabs that MainWindow._init_tabs builds with a db attribute.
Tabs == {"DashboardTab", "ItemsTab", "AtajadosTab", "AvanceTab", "CronogramaTab"}

\* A reference to a Database object: the object that is manager.proyecto.db,
\* or an object the manager has replaced since.
Refs(r) ==
    [closed |-> FALSE, db |-> r, tabs |-> [t \in Tabs |-> r],
     title |-> [star |-> FALSE, name |-> "Sin titulo"]]

\* Variant of _replace_db that sets MainWindow.db and refreshes the tabs
\* without handing them the new object.
_replace_db_window_only(w, new_db, d, p) ==
    _update_title([w EXCEPT !.db = new_db], d, p)

\* MainWindow._replace_db
_replace_db(w, new_db, d, p) ==
    _update_title([w EXCEPT !.db = new_db,
                            !.tabs = [t \in DOMAIN @ |-> new_db]], d, p)

\* The end of a manager method whose result is m; replaced: MainWindow then
\* calls _replace_db, which runs AvanceTab.load_items on the selector's text.
MgrDone(op, m, arg, replaced) ==
    LET l == load_items(m.db.items, at_text, current_atajado)
        w == Emitted(window, m.sig, m.dirty, m.path)
        held == IF m.newdb
                THEN [w EXCEPT !.db = "replaced",
                               !.tabs = [t \in DOMAIN @ |-> "replaced"]]
                ELSE w
    IN  /\ window' = IF replaced
                     THEN _replace_db(held, "proyecto.db", m.dirty, m.path)
                     ELSE held
        /\ items' = m.db.items
        /\ atajados' = m.db.atajados
        /\ avances' = m.db.avances
        /\ cols' = m.db.cols
        /\ db_path' = m.db_path
        /\ workfile' = m.workfile
        /\ temp_dir' = m.temp_dir
        /\ dirty' = m.dirty
        /\ path' = m.path
        /\ fs' = m.fs
        /\ images' = m.images
        /\ last' = Last(op, m.ret, m.sig, arg)
        /\ IF replaced
           THEN current_atajado' = l[1] /\ table' = l[2] /\ UNCHANGED at_text
           ELSE UNCHANGED uiVars

\* What a flow of the main window was given and how its prompt ended: the
\* answer (none when nothing was asked), the path of the save dialog, what
\* _maybe_save returned, and whether the flow went on after it.
Prompt(resp, dlg, s) ==
    [resp |-> IF dirty THEN resp ELSE "none",
     dlg |-> IF dirty /\ resp = "Yes" /\ IsNull(path) THEN dlg ELSE NULL,
     saved |-> s.ret, went |-> s.ret = "True"]

\* Archivo > Nuevo proyecto
Window_new_project(D) ==
    \E resp \in D.answers, dlg \in D.savepaths, gone \in BOOLEAN :
        LET m == _new_project(Mgr, resp, dlg, gone)
        IN  MgrDone("_new_project", m,
                    Prompt(resp, dlg, _maybe_save(Mgr, resp, dlg)), m.newdb)

\* Archivo > Abrir proyecto
Window_open_project(D) ==
    \E resp \in D.answers, dlg \in D.savepaths, p \in D.opendialog,
       gone \in BOOLEAN :
        LET m == _open_project(Mgr, resp, dlg, p, gone)
        IN  MgrDone("_open_project", m,
                    Prompt(resp, dlg, _maybe_save(Mgr, resp, dlg)), m.newdb)

\* The window's close button
Window_closeEvent(D) ==
    \E resp \in D.answers, dlg \in D.savepaths, gone \in BOOLEAN :
        LET m == closeEvent(Mgr, resp, dlg, gone)
        IN  /\ window' = [Emitted(window, m.sig, m.dirty, m.path)
                              EXCEPT !.closed = (m.ret = "accept")]
            /\ workfile' = m.workfile
            /\ temp_dir' = m.temp_dir
            /\ dirty' = m.dirty
            /\ path' = m.path
            /\ fs' = m.fs
            /\ images' = m.images
            /\ last' = Last("closeEvent", m.ret, m.sig,
                            Prompt(resp, dlg, _maybe_save(Mgr, resp, dlg)))
            /\ UNCHANGED <<items, atajados, avances, cols, db_path, uiVars>>

\* AvanceTab._reload_thumbs: the images listed for the atajado cur.
_reload_thumbs(imgs, cur) ==
    IF IsNull(cur) THEN {}
    ELSE {i.name : i \in {x \in imgs.dir : x.num = Val(cur)}}

\* img_btn.clicked -> _select_images: the files picked in the dialog are
\* copied to IMAGES_DIR / str(current_atajado).
AvanceTab_select_images(D) ==
    \E names \in (SUBSET D.imagenames) \ {{}} :
        LET new == {[num |-> Val(current_atajado), name |-> n] : n \in names}
        IN  /\ ~IsNull(current_atajado)
            /\ images' = [images EXCEPT !.dir = @ \cup new,
                                        !.mine = @ \cup new]
            /\ last' = Last("_select_images", "ok", <<>>,
                            _reload_thumbs(images', current_atajado))
            /\ UNCHANGED <<items, atajados, avances, dirty, cols, db_path,
                           workfile, temp_dir, path, fs, window, uiVars>>

\* img_list's context menu -> _thumb_menu, answered Yes: the file is removed.
AvanceTab_thumb_menu ==
    \E n \in _reload_thumbs(images, current_atajado) :
        LET old == {[num |-> Val(current_atajado), name |-> n]}
        IN  /\ images' = [images EXCEPT !.dir = @ \ old, !.mine = @ \ old]
            /\ last' = Last("_thumb_menu", "ok", <<>>, n)
            /\ UNCHANGED <<items, atajados, avances, dirty, cols, db_path,
                           workfile, temp_dir, path, fs, window, uiVars>>

\* ItemsTab.refresh: the Avance (%) cell of every active item shows
\* _calc_global_pct of the item.
ItemsTab_refresh ==
    /\ last' = Last("refresh", "ok", <<>>,
                    [i \in {r.id : r \in {x \in items : x.active = 1}} |->
                        _calc_global_pct(atajados, avances, i)])
    /\ UNCHANGED <<items, atajados, avances, dirty, mgrVars, uiVars>>

\* MainWindow._new_project once _maybe_save lets it continue
NewProject ==
    \E gone \in BOOLEAN :
        MgrDone("new_project", new_project(Mgr, gone), NULL, TRUE)

\* MainWindow._open_project once _maybe_save lets it continue
OpenProject(D) ==
    \E p \in D.openpaths, gone \in BOOLEAN :
        LET m == open_project(Mgr, p, gone)
        IN  MgrDone("open_project", m, Some(p), m.ret # "raised")

\* ProyectoManager.save_project(path)
SaveProject(D) ==
    \E arg \in D.savepaths :
        MgrDone("save_project", save_project(Mgr, arg), arg, FALSE)

-----------------------------------------------------------------------------
(* What is on disk at start *)

\* A package written by an older version: its items table has the column
\* incidence and no column unit_price yet. It holds n items, the first one
\* finished by hand (progress 100).
LegacyDb(n) ==
    [items |-> {[id |-> k, code |-> "c" \o ToString(k), total |-> 1,
                 unit_price |-> NULL, incidence |-> 1, active |-> 0,
                 progress |-> IF k = 1 THEN 100 ELSE 0] : k \in 1..n},
     atajados |-> {}, avances |-> {},
     cols |-> MigratedCols \ {"items.unit_price"}]

\* A package saved by this version: one active item, one atajado and the
\* progress recorded for them.
SampleDb ==
    [items |-> {[id |-> 1, code |-> "c1", total |-> 1, unit_price |-> Some(0),
                 incidence |-> 1, active |-> 1, progress |-> 0]},
     atajados |-> {[id |-> 1, number |-> 1, coord_e |-> 3, coord_n |-> 3,
                    este |-> NULL, norte |-> NULL, status |-> "Ejecutado",
                    porcentaje |-> Some(RInt(100))]},
     avances |-> {[id |-> 1, atajado_id |-> 1, item_id |-> 1, date |-> 1,
                   quantity |-> 100, start_date |-> 1, end_date |-> 1,
                   comment |-> 1]},
     cols |-> MigratedCols]

\* The files the user can pick: a file that is no archive, an archive without
\* atajados.db, and a package holding the database d.
InitFs(d) ==
    [p \in FilePaths |->
        CASE p = P("a", "") -> NotZip
          [] p = P("b", ".zip") -> ZipNoDb
          [] p = P("a", ".zip") -> Package(d)
          [] OTHER -> NoFile]

\* ProyectoManager.__init__ and MainWindow.__init__: an empty database in
\* memory, no path, not dirty; the Avance tab has nothing selected.
InitWith(files) ==
    /\ items = {}
    /\ atajados = {}
    /\ avances = {}
    /\ cols = MigratedCols
    /\ db_path = ":memory:"
    /\ workfile = FALSE
    /\ temp_dir = FALSE
    /\ dirty = FALSE
    /\ path = NULL
    /\ fs = files
    /\ at_text = NULL
    /\ current_atajado = NULL
    /\ table = <<>>
    /\ window = _update_title(Refs("proyecto.db"), dirty, path)
    /\ images = NoImages
    /\ last = Last("init", "ok", <<>>, <<>>)

\* The widgets of a row of AvanceTab.table, a row of an items file and a row
\* of an atajados file.
Entry(pct, ini, fin, com) == [pct |-> pct, ini |-> ini, fin |-> fin, com |-> com]

\* What the user enters in a row: the k-th option of the progress combo and
\* the k-th date / comment text.
StampEntry(k) ==
    Entry(CHOOSE o \in AvancePctOptions : o[1] = ToString(25 * k), k, k, k)

ItemRow(code, qty, pu) == [code |-> code, qty |-> qty, pu |-> pu]
AtajadoRow(num, e, n) == [num |-> num, e |-> e, n |-> n]

-----------------------------------------------------------------------------
(* Spec: the project manager, with two handlers that change the database *)

ProjD ==
    [maxitem |-> MaxItemId, maxatajado |-> MaxAtajadoId,
     codes |-> {"c2"},
     qtys |-> {"1"},
     pus |-> {"1"},
     nums |-> Texts(1..MaxNumber),
     coords |-> {"3"},
     openpaths |-> FilePaths,
     savepaths |-> {NULL} \cup {Some(p) : p \in {q \in FilePaths : q.stem = "a"}}]

Init == InitWith(InitFs(SampleDb))

Next ==
    \/ ItemsTab_add(ProjD)
    \/ AtajadosTab_add(ProjD)
    \/ ItemsTab_delete
    \/ NewProject
    \/ OpenProject(ProjD)
    \/ SaveProject(ProjD)

Spec == Init /\ [][Next]_vars

-----------------------------------------------------------------------------
(* SpecExec: calls of TrackedDatabase.execute and of the fetch helpers *)

\* Statements with their first word spelled in several ways: writes that
\* complete, writes that raise (a duplicate code or number), reads, and texts
\* without a word.
ExecStmts ==
    {Stmt(<<w>>, "insert_item", [code |-> "c" \o ToString(k), total |-> 1,
                                  incidence |-> 1])
        : w \in {"insert", "INSERT"}, k \in 1..MaxItemId}
    \cup {Stmt(<<" ", "Insert">>, "insert_atajado", [number |-> n, e |-> 3, n |-> 3])
        : n \in 1..MaxNumber}
    \cup {Stmt(<<w>>, "update_item", [id |-> 1, field |-> "code", val |-> "c2"])
        : w \in {"update", "UPDATE"}}
    \cup {Stmt(<<w>>, "delete_item", [id |-> 1]) : w \in {"Delete", "DELETE"}}
    \cup {Stmt(<<w>>, "create_index", <<>>) : w \in {"create", "CREATE"}}
    \cup {Stmt(<<w>>, "select", <<>>) : w \in {"select", "SELECT"}}
    \cup {Stmt(<<" ", "PRAGMA">>, "pragma", <<>>),
          Stmt(<<" ">>, "empty", <<>>), Stmt(<<>>, "empty", <<>>)}

ExecD ==
    [stmts |-> ExecStmts,
     selections |-> {NULL, Some(1)},
     openpaths |-> {P("a", ".zip"), P("a", "")}]

InitExec == InitWith(InitFs(SampleDb))

NextExec ==
    \/ Execute(ExecD)
    \/ AvanceTab_select(ExecD)
    \/ Dashboard_refresh
    \/ NewProject
    \/ OpenProject(ExecD)

SpecExec == InitExec /\ [][NextExec]_vars

-----------------------------------------------------------------------------
(* SpecTabs: every handler of the three tabs that writes, on a project that
   is new or was opened from a package *)

TabD ==
    [maxitem |-> MaxItemId, maxatajado |-> MaxAtajadoId,
     codes |-> {"c" \o ToString(k) : k \in 1..MaxItemId},
     qtys |-> Texts({1}),
     pus |-> {"1"},
     nums |-> Texts({1}),
     coords |-> {"3"},
     itempcts |-> {o \in ItemPctOptions : o[1] = "50"},
     itemfiles |-> {<<ItemRow("c1", "1", "1")>>},
     atajadofiles |-> {<<AtajadoRow("1", "3", "3")>>},
     selections |-> {Some(1)},
     entries |-> {StampEntry(2)},
     days |-> {1},
     openpaths |-> {P("a", ".zip"), P("a", "")}]

InitTabs == InitWith(InitFs(SampleDb))

NextTabs ==
    \/ ItemsTab_add(TabD)
    \/ ItemsTab_edit(TabD)
    \/ ItemsTab_cell_edited(TabD)
    \/ ItemsTab_toggle_active
    \/ ItemsTab_update_pct(TabD)
    \/ ItemsTab_import(TabD)
    \/ ItemsTab_delete
    \/ ItemsTab_delete_selected
    \/ AtajadosTab_add(TabD)
    \/ AtajadosTab_import(TabD)
    \/ AtajadosTab_cell_changed(TabD)
    \/ AtajadosTab_delete
    \/ AvanceTab_select(TabD)
    \/ AvanceTab_populate
    \/ AvanceTab_save(TabD)
    \/ NewProject
    \/ OpenProject(TabD)

SpecTabs == InitTabs /\ [][NextTabs]_vars

-----------------------------------------------------------------------------
(* SpecAvance: progress saved again and again for the atajados of a project *)

AvanceD ==
    [maxatajado |-> MaxAtajadoId,
     nums |-> {ToString(n) : n \in 1..MaxNumber},
     coords |-> {"3"},
     selections |-> {NULL} \cup {Some(n) : n \in 1..MaxNumber},
     entries |-> {StampEntry(k) : k \in 1..MaxStamp},
     days |-> 1..MaxStamp,
     openpaths |-> {P("a", ".zip")}]

InitAvance == InitWith(InitFs(SampleDb))

NextAvance ==
    \/ NewProject
    \/ OpenProject(AvanceD)
    \/ ItemsTab_toggle_active
    \/ ItemsTab_delete
    \/ AtajadosTab_add(AvanceD)
    \/ AtajadosTab_delete
    \/ AvanceTab_select(AvanceD)
    \/ AvanceTab_save(AvanceD)

SpecAvance == InitAvance /\ [][NextAvance]_vars

-----------------------------------------------------------------------------
(* SpecFormula: get_project_progress on the tables a project can hold *)

FormulaItems == 2     \* items drawn for get_project_progress: 0..FormulaItems

\* What an item row can hold where the weighted progress looks: its quantity,
\* its unit_price (NULL in a row written without it) and incidence, and where
\* its percentage comes from: the avances of an active item, the manual
\* progress of an inactive one.
FormulaKinds ==
    [total : {-1, 1, 2},
     price : {<<NULL, 1>>, <<Some(0), 1>>, <<Some(2), 1>>},
     pct : {<<1, 0, {}>>, <<1, 0, {100}>>, <<1, 50, {0, 100}>>,
            <<0, 0, {100}>>, <<0, 50, {}>>}]

\* The item row k of kind c, and its avances rows: one per atajado, the
\* atajado with id q / 100 + 1 holding the quantity q.
FormulaItem(k, c) ==
    [id |-> k, code |-> "c" \o ToString(k), total |-> c.total,
     unit_price |-> c.price[1], incidence |-> c.price[2],
     active |-> c.pct[1], progress |-> c.pct[2]]

FormulaAvances(k, c) ==
    {[id |-> 2 * k + (q \div 100), atajado_id |-> (q \div 100) + 1,
      item_id |-> k, date |-> 1, quantity |-> q, start_date |-> 1,
      end_date |-> 1, comment |-> 1] : q \in c.pct[3]}

FormulaAtajados ==
    {[id |-> n, number |-> n, coord_e |-> 3, coord_n |-> 3, este |-> NULL,
      norte |-> NULL, status |-> "NULL", porcentaje |-> NULL] : n \in 1..2}

InitFormula ==
    \E n \in 0..FormulaItems :
        \E f \in [1..n -> FormulaKinds] :
            /\ items = {FormulaItem(k, f[k]) : k \in 1..n}
            /\ atajados = FormulaAtajados
            /\ avances = UNION {FormulaAvances(k, f[k]) : k \in 1..n}
            /\ cols = MigratedCols
            /\ db_path = "file"
            /\ workfile = TRUE
            /\ temp_dir = TRUE
            /\ dirty = FALSE
            /\ path = Some(P("a", ".zip"))
            /\ fs = InitFs(SampleDb)
            /\ at_text = NULL
            /\ current_atajado = NULL
            /\ table = <<>>
            /\ window = _update_title(Refs("proyecto.db"), dirty, path)
            /\ images = NoImages
            /\ last = Last("open_project", "None", <<>>, Some(P("a", ".zip")))

NextFormula == Dashboard_refresh

SpecFormula == InitFormula /\ [][NextFormula]_vars

-----------------------------------------------------------------------------
(* SpecProgress: the project's progress as the Items and Avance tabs change
   what it is computed from, on a new project and on one opened from a
   package of an older version *)

ProgressD ==
    [maxitem |-> MaxItemId, maxatajado |-> MaxAtajadoId,
     codes |-> {"c" \o ToString(k) : k \in 1..MaxItemId},
     qtys |-> Texts({-1, MaxQty}),
     pus |-> Texts({MaxPrice}),
     nums |-> Texts(1..MaxNumber),
     coords |-> {"3"},
     selections |-> {Some(n) : n \in 1..MaxNumber},
     entries |-> {StampEntry(k) : k \in {2, 4}},
     days |-> {1},
     openpaths |-> {P("a", ".zip")}]

InitProgress == InitWith(InitFs(LegacyDb(2)))

NextProgress ==
    \/ NewProject
    \/ OpenProject(ProgressD)
    \/ ItemsTab_add(ProgressD)
    \/ ItemsTab_cell_edited(ProgressD)
    \/ ItemsTab_toggle_active
    \/ AtajadosTab_add(ProgressD)
    \/ AvanceTab_select(ProgressD)
    \/ AvanceTab_save(ProgressD)
    \/ Dashboard_refresh

SpecProgress == InitProgress /\ [][NextProgress]_vars

-----------------------------------------------------------------------------
(* SpecItems: the handlers of the Items tab that create, rename and delete
   items, with codes that are free and codes that are in use *)

ItemCodes == {"c" \o ToString(k) : k \in 1..(MaxItemId + 1)}

\* The files to import: one or two rows, their codes new, in use, or repeated
\* within the file.
ItemFiles ==
    {<<ItemRow(c, "1", "1")>> : c \in ItemCodes}
    \cup {<<ItemRow(c1, "1", "1"), ItemRow(c2, "1", "1")>> :
             c1 \in ItemCodes, c2 \in ItemCodes}

ItemsD ==
    [note |-> TRUE, maxitem |-> MaxItemId + 1,
     codes |-> ItemCodes,
     qtys |-> {"2"},
     pus |-> Texts({1}),
     itemfiles |-> ItemFiles,
     openpaths |-> {P("a", ".zip")}]

NextItems ==
    \/ ItemsTab_add(ItemsD)
    \/ ItemsTab_edit(ItemsD)
    \/ ItemsTab_cell_edited(ItemsD)
    \/ ItemsTab_import(ItemsD)
    \/ ItemsTab_delete
    \/ ItemsTab_delete_selected
    \/ NewProject
    \/ OpenProject(ItemsD)

SpecItems == Init /\ [][NextItems]_vars

-----------------------------------------------------------------------------
(* SpecAtajados: the handlers of the Atajados tab, with numbers that are free
   and numbers that are in use *)

AtajadoNums == Texts(1..(MaxNumber + 1))

\* The files to import: one or two rows, their numbers new, in use, repeated
\* within the file, or no number at all.
AtajadoFiles ==
    {<<AtajadoRow(a, "2", "2")>> : a \in AtajadoNums}
    \cup {<<AtajadoRow(a, "2", "2"), AtajadoRow(b, "2", "2")>> :
             a \in AtajadoNums, b \in AtajadoNums}

AtajadosD ==
    [note |-> TRUE, maxatajado |-> MaxAtajadoId + 1,
     nums |-> AtajadoNums,
     coords |-> {"2"},
     atajadofiles |-> AtajadoFiles,
     openpaths |-> {P("a", ".zip"), P("a", "")}]

NextAtajados ==
    \/ AtajadosTab_add(AtajadosD)
    \/ AtajadosTab_import(AtajadosD)
    \/ AtajadosTab_cell_changed(AtajadosD)
    \/ AtajadosTab_delete
    \/ NewProject
    \/ OpenProject(AtajadosD)

SpecAtajados == Init /\ [][NextAtajados]_vars

-----------------------------------------------------------------------------
(* SpecOpen: Database.open on the databases of packages written by older
   versions, and again on databases it has already brought up to date *)

\* The database of an older version whose tables lack the columns in missing
\* (a row has no value there: "" or NULL stands for it); it holds n items and
\* one atajado.
LegacyWithout(missing, n) ==
    [items |-> {[id |-> k,
                 code |-> IF "items.code" \in missing THEN ""
                          ELSE "c" \o ToString(k),
                 total |-> 1,
                 unit_price |-> IF "items.unit_price" \in missing THEN NULL
                                ELSE Some(0),
                 incidence |-> 1, active |-> 0,
                 progress |-> 25 * k] : k \in 1..n},
     atajados |-> {[id |-> 1, number |-> 1, coord_e |-> 3, coord_n |-> 2,
                    este |-> NULL, norte |-> NULL, status |-> "NULL",
                    porcentaje |-> NULL]},
     avances |-> {},
     cols |-> MigratedCols \ missing]

OpenD ==
    [codes |-> {"c1"},
     qtys |-> {"2"},
     pus |-> {"2"},
     openpaths |-> {P("a", ".zip"), P("b", ".spkg")},
     savepaths |-> {Some(P("b", ".spkg"))}]

InitOpen ==
    \E missing \in SUBSET MigratedCols, n \in 0..MaxItemId :
        InitWith(InitFs(LegacyWithout(missing, n)))

NextOpen ==
    \/ OpenProject(OpenD)
    \/ ItemsTab_cell_edited(OpenD)
    \/ SaveProject(OpenD)
    \/ NewProject

SpecOpen == InitOpen /\ [][NextOpen]_vars

-----------------------------------------------------------------------------
(* SpecPct: the Items tab and the dashboard showing the same database *)

NextPct ==
    \/ ItemsTab_refresh
    \/ Dashboard_refresh

SpecPct == InitFormula /\ [][NextPct]_vars

-----------------------------------------------------------------------------
(* SpecEstado: progress saved for the selected atajado while the items change
   their quantity and are switched on and off *)

\* A package with two items of cost 2 and 1, both switched off, and no
\* atajado yet.
EstadoDb ==
    [items |-> {[id |-> k, code |-> "c" \o ToString(k), total |-> 3 - k,
                 unit_price |-> Some(1), incidence |-> 1, active |-> 0,
                 progress |-> 0] : k \in 1..2},
     atajados |-> {}, avances |-> {},
     cols |-> MigratedCols]

EstadoD ==
    [maxatajado |-> MaxAtajadoId,
     codes |-> {"c1"},
     qtys |-> {"-1"},
     pus |-> {"1"},
     nums |-> {ToString(n) : n \in 1..MaxNumber},
     coords |-> {"3"},
     selections |-> {Some(n) : n \in 1..MaxNumber},
     entries |-> {StampEntry(2)},
     days |-> {1},
     openpaths |-> {P("a", ".zip")}]

NextEstado ==
    \/ OpenProject(EstadoD)
    \/ ItemsTab_cell_edited(EstadoD)
    \/ ItemsTab_toggle_active
    \/ AtajadosTab_add(EstadoD)
    \/ AvanceTab_select(EstadoD)
    \/ AvanceTab_save(EstadoD)

InitEstado == InitWith(InitFs(EstadoDb))

SpecEstado == InitEstado /\ [][NextEstado]_vars

-----------------------------------------------------------------------------
(* SpecImages: images attached to the selected atajado while projects are
   created, saved and opened *)

ImagesD ==
    [maxatajado |-> MaxAtajadoId,
     nums |-> {ToString(n) : n \in 1..MaxNumber},
     coords |-> {"3"},
     selections |-> {Some(n) : n \in 1..MaxNumber},
     imagenames |-> {"f.png"},
     openpaths |-> {P("a", ".zip"), P("b", ".spkg")},
     savepaths |-> {Some(P("b", ".spkg"))}]

NextImages ==
    \/ NewProject
    \/ OpenProject(ImagesD)
    \/ SaveProject(ImagesD)
    \/ AtajadosTab_add(ImagesD)
    \/ AvanceTab_select(ImagesD)
    \/ AvanceTab_select_images(ImagesD)
    \/ AvanceTab_thumb_menu

SpecImages == Init /\ [][NextImages]_vars

-----------------------------------------------------------------------------
(* SpecDelete: atajados registered in any order of their numbers, progress
   saved for the selected atajado, and atajados and items deleted *)

DeleteD ==
    [maxatajado |-> MaxAtajadoId + 1,
     nums |-> Texts(1..(MaxNumber + 1)),
     coords |-> {"3"},
     selections |-> {Some(n) : n \in 1..(MaxNumber + 1)},
     entries |-> {StampEntry(1)},
     days |-> {1},
     openpaths |-> {P("a", ".zip")}]

NextDelete ==
    \/ OpenProject(DeleteD)
    \/ AtajadosTab_add(DeleteD)
    \/ AtajadosTab_delete
    \/ ItemsTab_delete
    \/ AvanceTab_select(DeleteD)
    \/ AvanceTab_save(DeleteD)

SpecDelete == Init /\ [][NextDelete]_vars

-----------------------------------------------------------------------------
(* SpecWindow: the flows of the main window that replace the project or close
   the window, on a project that is clean or was changed in a tab *)

WindowD ==
    [maxitem |-> MaxItemId + 1,
     codes |-> {"c2"},
     qtys |-> {"1"},
     pus |-> {"1"},
     answers |-> {"Yes", "No", "Cancel"},
     savepaths |-> {NULL, Some(P("b", ".zip"))},
     opendialog |-> {NULL, Some(P("a", ".zip")), Some(P("b", ".spkg")),
                     Some(P("a", ""))}]

\* No handler runs once the window has closed.
NextWindow ==
    \/ ~window.closed /\ Window_new_project(WindowD)
    \/ ~window.closed /\ Window_open_project(WindowD)
    \/ ~window.closed /\ Window_closeEvent(WindowD)
    \/ ~window.closed /\ ItemsTab_add(WindowD)
    \/ ~window.closed /\ ItemsTab_delete

SpecWindow == Init /\ [][NextWindow]_vars

-----------------------------------------------------------------------------
(* Properties of the project manager, checked under Spec *)

TheDb == [items |-> items, atajados |-> atajados, avances |-> avances,
          cols |-> cols]

\* C3: whenever save_project returns True, the dirty flag is False, the
\* project's path is the path the package was written to, and the package
\* written there holds the entry atajados.db (with the project's database), so
\* that opening it does not fail for a missing atajados.db.
C3_SaveTrue ==
    (last.op = "save_project" /\ last.ret = "True") =>
        /\ ~dirty
        /\ ~IsNull(path)
        /\ fs[Val(path)].kind = "zip"
        /\ fs[Val(path)].hasdb
        /\ fs[Val(path)].db = TheDb
        /\ last.sig[Len(last.sig)] = Signal("dirtyChanged", "False")

C3_Witness ==
    /\ last.op = "save_project"
    /\ last.ret = "True"
    /\ atajados # {}
    /\ fs[Val(path)] = Package(TheDb)

\* C4: save_project(None) on a project without a path returns False and
\* changes nothing: dirty flag, path, database, files on disk stay as they
\* were and no signal is emitted.
C4_SaveNoPath ==
    [][(last'.op = "save_project" /\ IsNull(last'.info) /\ IsNull(path)) =>
          /\ last'.ret = "False"
          /\ last'.sig = <<>>
          /\ UNCHANGED <<items, atajados, avances, cols, db_path, workfile,
                         temp_dir, dirty, path, fs, uiVars>>]_vars

C4_Witness ==
    /\ last.op = "save_project"
    /\ last.ret = "False"
    /\ IsNull(path)
    /\ dirty
    /\ atajados # {}

-----------------------------------------------------------------------------
(* Properties of TrackedDatabase.execute, checked under SpecExec *)

\* The spellings of the keywords that count as a write.
WriteSpellings ==
    {"INSERT", "insert", "Insert", "UPDATE", "update", "Update",
     "DELETE", "delete", "Delete", "CREATE", "create", "Create",
     "DROP", "drop", "Drop", "ALTER", "alter", "Alter",
     "REPLACE", "replace", "Replace"}

\* The text starts, after whitespace, with a write keyword.
StartsWithWrite(text) ==
    \E k \in 1..Len(text) :
        /\ text[k] \in WriteSpellings
        /\ \A j \in 1..(k - 1) : text[j] = " "

\* C1: a call of TrackedDatabase.execute leaves the dirty flag true exactly
\* when it was true before or the statement completed without raising and its
\* first keyword, in any letter case, is INSERT, UPDATE, DELETE, CREATE, DROP,
\* ALTER or REPLACE; so a SELECT or PRAGMA and a write that raises leave the
\* flag as it was, and so do the reads through fetchone / fetchall.
C1_DirtyIffWrite ==
    [][/\ last'.op = "execute" =>
            (dirty' <=> (dirty \/ (last'.ret = "ok" /\ StartsWithWrite(last'.info))))
       /\ last'.op \in {"load_items", "get_project_progress"} => dirty' = dirty
      ]_vars

\* A lower-case insert completed on a clean project and marked it modified.
C1_Witness ==
    /\ last.op = "execute"
    /\ last.ret = "ok"
    /\ last.info = <<"insert">>
    /\ dirty
    /\ last.sig = <<Signal("dirtyChanged", "True")>>

-----------------------------------------------------------------------------
(* Properties of the tab handlers, checked under SpecTabs *)

TabWriteOps ==
    {"items_add", "items_edit", "items_cell", "items_toggle", "items_pct",
     "items_import", "items_delete", "atajados_add", "atajados_import",
     "atajados_cell", "atajados_delete", "save_progress"}

\* C2: after a tab operation that changed at least one row of the project's
\* database (items, atajados or avances), the dirty flag is true; this holds
\* for save_progress too, whose avances rows go through a raw cursor.
C2_ChangeMakesDirty ==
    [][(/\ last'.op \in TabWriteOps
        /\ <<items', atajados', avances'>> # <<items, atajados, avances>>)
       => dirty']_vars

\* save_progress saved a row on a project that was clean.
C2_Witness ==
    /\ last.op = "save_progress"
    /\ last.info.filas_ok > 0
    /\ last.sig = <<Signal("dirtyChanged", "True")>>
    /\ dirty
    /\ \E v \in avances : v.quantity = 50

-----------------------------------------------------------------------------
(* Properties of save_progress, checked under SpecAvance *)

\* The avances rows of a pair (atajado_id, item_id).
PairRows(avs, aid, iid) == {v \in avs : v.atajado_id = aid /\ v.item_id = iid}

\* The percentage an entry of the progress combo spells.
PctValue(e) == CHOOSE n \in {25 * k : k \in 0..4} : ToString(n) = e.pct[1]

\* C10: the avances table never holds two rows for one pair (atajado_id,
\* item_id); a save_progress that saved every row of its table leaves, for each
\* of them, the one row of its pair with the date, quantity, start_date,
\* end_date and comment just entered, and where the pair had a row before it
\* is that row (same id) and no row was added for it.
C10_OneRowPerPair ==
    [][/\ \A v1, v2 \in avances' :
            (v1.atajado_id = v2.atajado_id /\ v1.item_id = v2.item_id) => v1 = v2
       /\ (last'.op = "save_progress" /\ last'.info.filas_ok = Len(table)) =>
            \A k \in 1..Len(table) :
                LET e == last'.info.entry[k]
                    old == PairRows(avances, Val(current_atajado), table[k])
                    new == PairRows(avances', Val(current_atajado), table[k])
                IN  /\ Cardinality(new) = 1
                    /\ \A v \in new :
                          /\ v.date = last'.info.today
                          /\ v.quantity = PctValue(e)
                          /\ v.start_date = e.ini
                          /\ v.end_date = e.fin
                          /\ v.comment = e.com
                    /\ old # {} => {v.id : v \in new} = {v.id : v \in old}
       /\ last'.op = "save_progress" =>
            Cardinality(avances') <= Cardinality(avances) + last'.info.filas_ok
      ]_vars

\* A second save for the pair (1, 1) of the opened package replaced its row.
C10_Witness ==
    /\ last.op = "save_progress"
    /\ last.info.filas_ok = 1
    /\ last.info.today = 2
    /\ avances = {[id |-> 1, atajado_id |-> 1, item_id |-> 1, date |-> 2,
                   quantity |-> 50, start_date |-> 2, end_date |-> 2,
                   comment |-> 2]}

-----------------------------------------------------------------------------
(* Properties of get_project_progress *)

RECURSIVE RSum(_, _)
RSum(S, f) ==
    IF S = {} THEN RInt(0)
    ELSE LET x == CHOOSE y \in S : TRUE
         IN  RAdd(f[x], RSum(S \ {x}, f))

\* The weighted progress as stated: price_i is the row's unit_price, or its
\* incidence where unit_price is NULL.
StatedProgress(its, avs) ==
    LET price(r) == IF r.unit_price = NULL THEN r.incidence ELSE r.unit_price[1]
        cost(r) == RInt(r.total * price(r))
        mine(r) == {v \in avs : v.item_id = r.id}
        avg(r) == IF mine(r) = {} THEN RInt(0)
                  ELSE RDiv(RSum(mine(r), [v \in mine(r) |-> RInt(v.quantity)]),
                            RInt(Cardinality(mine(r))))
        pct(r) == IF r.active = 1 THEN avg(r) ELSE RInt(r.progress)
        executed(r) == RMul(RDiv(pct(r), RInt(100)), cost(r))
        total_cost == RSum(its, [r \in its |-> cost(r)])
    IN  IF its = {} \/ RZero(total_cost) THEN RInt(0)
        ELSE RDiv(RMul(RInt(100), RSum(its, [r \in its |-> executed(r)])),
                  total_cost)

\* C7: get_project_progress returns 100 * sum(pct_i / 100 * total_i * price_i)
\* / sum(total_i * price_i), pct_i being the average quantity of the item's
\* avances (0 without any) for an active item and its manual progress for an
\* inactive one; it returns 0 without items and when the total cost is 0.
C7_WeightedProgress ==
    last.op = "get_project_progress" => last.info = StatedProgress(items, avances)

\* Two items of different cost, one active with two avances rows, one
\* inactive: the result is neither of their percentages.
C7_Witness ==
    /\ last.op = "get_project_progress"
    /\ Cardinality(items) = 2
    /\ \E r \in items : r.active = 1 /\ Cardinality(PairRows(avances, 1, r.id)) = 1
                        /\ Cardinality(PairRows(avances, 2, r.id)) = 1
    /\ \E r \in items : r.active = 0 /\ r.progress = 50
    /\ last.info = Rat(50, 1)
    /\ \E r1, r2 \in items : r1.total * Pu(r1) # r2.total * Pu(r2)

\* C8: on a new project, whose items all come from the Items tab, with one
\* item that is active, has a positive quantity and a positive entered price
\* (the P.U. column, stored in incidence) and has avances rows, the project's
\* progress is the average of these rows.
C8_EnteredPriceWeighs ==
    (/\ last.op = "get_project_progress"
     /\ db_path = ":memory:"
     /\ Cardinality(items) = 1
     /\ \A r \in items :
            /\ r.active = 1 /\ r.total > 0 /\ r.incidence > 0
            /\ \E v \in avances : v.item_id = r.id)
    => \A r \in items : last.info = AvgQuantity(avances, r.id)

\* C9: get_project_progress returns a value between 0 and 100.
C9_WithinRange ==
    last.op = "get_project_progress" =>
        RLeq(RInt(0), last.info) /\ RLeq(last.info, RInt(100))

-----------------------------------------------------------------------------
(* Properties of the Items tab, checked under SpecItems *)

\* The code c is the code of a row of its other than the row iid.
CodeInUse(its, c, iid) == \E r \in its : r.code = c /\ r.id # iid

\* C11: no two items rows ever have the same code. An add dialog saved with a
\* code in use, an edit dialog or an inline edit renaming an item to the code
\* of another item, and an import whose first row has a code in use leave the
\* items table as it was; an import keeps every row that was there and adds
\* rows only for codes that were not in use.
C11_UniqueCode ==
    [][/\ \A r1, r2 \in items' : r1.code = r2.code => r1 = r2
       /\ (last'.op = "items_add" /\ CodeInUse(items, last'.info.code, 0))
            => items' = items
       /\ (/\ last'.op = "items_edit"
           /\ CodeInUse(items, last'.info.code, last'.info.id))
            => items' = items
       /\ (/\ last'.op = "items_cell"
           /\ last'.info.campo = "code"
           /\ CodeInUse(items, last'.info.text, last'.info.id))
            => items' = items
       /\ last'.op = "items_import" =>
            /\ items \subseteq items'
            /\ CodeInUse(items, last'.info[1].code, 0) => items' = items
            /\ \A r \in items' \ items :
                  /\ ~CodeInUse(items, r.code, 0)
                  /\ \E k \in 1..Len(last'.info) : last'.info[k].code = r.code
      ]_vars

\* An inline edit of an item's code to the code of another item was refused
\* by the database and left both rows as they were.
C11_Witness ==
    /\ last.op = "items_cell"
    /\ last.ret = "raised"
    /\ last.info.campo = "code"
    /\ Cardinality(items) = 2
    /\ \E r \in items : r.id # last.info.id /\ r.code = last.info.text
    /\ \E r \in items : r.id = last.info.id /\ r.code # last.info.text

-----------------------------------------------------------------------------
(* Properties of the Atajados tab, checked under SpecAtajados *)

Numbers(ats) == {r.number : r \in ats}

\* The number of row k of a file, NULL where ATAJADO is no integer.
RowNum(rows, k) == float(rows[k].num)

\* Row k of a file has a number that is in the table ats or in an earlier
\* row of the file.
RowDup(ats, rows, k) ==
    /\ ~IsNull(RowNum(rows, k))
    /\ \/ Val(RowNum(rows, k)) \in Numbers(ats)
       \/ \E j \in 1..(k - 1) : RowNum(rows, j) = RowNum(rows, k)

\* Row k of a file raises: a cell that does not convert, or an INSERT into a
\* database that cannot be written.
RowRaises(ats, rows, k, rw) ==
    \/ IsNull(RowNum(rows, k))
    \/ IsNull(float(rows[k].e))
    \/ IsNull(float(rows[k].n))
    \/ ~rw /\ ~RowDup(ats, rows, k)

\* The rows of a file before its first row that raises.
RowsDone(ats, rows, rw) ==
    {k \in 1..Len(rows) : \A j \in 1..k : ~RowRaises(ats, rows, j, rw)}

\* C12 as stated: no two atajados rows have the same number; import_atajados
\* inserts each file row whose number is not yet present, skips each row whose
\* number exists (in the table or earlier in the file) and counts it as a
\* duplicate.
C12_ImportEachRow ==
    [][/\ \A r1, r2 \in atajados' : r1.number = r2.number => r1 = r2
       /\ last'.op = "atajados_import" =>
            LET rows == last'.info.rows
            IN  /\ atajados \subseteq atajados'
                /\ \A k \in 1..Len(rows) :
                      ~IsNull(RowNum(rows, k)) =>
                          Val(RowNum(rows, k)) \in Numbers(atajados')
                /\ last'.info.repetidos =
                      Cardinality({k \in 1..Len(rows) : RowDup(atajados, rows, k)})
      ]_vars

\* C12, amended: no two atajados rows have the same number. import_atajados
\* takes the file rows in order up to the first row that raises (ATAJADO no
\* integer, ESTE or NORTE no number, or an INSERT the database refuses): of
\* these rows it inserts each one whose number is not yet present, with the
\* coordinates of that row, and skips and counts as duplicate each one whose
\* number exists in the table or earlier in the file; the row that raises and
\* the rows after it are not inserted, and the import is reported as failed.
C12_ImportUntilError ==
    [][/\ \A r1, r2 \in atajados' : r1.number = r2.number => r1 = r2
       /\ last'.op = "atajados_import" =>
            LET rows == last'.info.rows
                done == RowsDone(atajados, rows, CanWrite)
            IN  /\ atajados \subseteq atajados'
                /\ Numbers(atajados') =
                      Numbers(atajados) \cup {Val(RowNum(rows, k)) : k \in done}
                /\ \A r \in atajados' \ atajados :
                      \E k \in done :
                          /\ ~RowDup(atajados, rows, k)
                          /\ r.number = Val(RowNum(rows, k))
                          /\ r.coord_e = Val(float(rows[k].e))
                          /\ r.coord_n = Val(float(rows[k].n))
                /\ last'.info.repetidos =
                      Cardinality({k \in done : RowDup(atajados, rows, k)})
                /\ last'.info.failed <=> done # 1..Len(rows)
      ]_vars

\* A file with the same new number in two rows: the first was inserted, the
\* second skipped and counted.
C12_Witness ==
    /\ last.op = "atajados_import"
    /\ Len(last.info.rows) = 2
    /\ last.info.rows[1].num = last.info.rows[2].num
    /\ last.info.repetidos = 1
    /\ ~last.info.failed
    /\ Cardinality(atajados) = 1
    /\ \E r \in atajados : r.number = Val(float(last.info.rows[1].num))
                             /\ r.coord_e = 2

-----------------------------------------------------------------------------
(* Properties of Database.open, checked under SpecOpen *)

\* The rows of new are the rows of old, with the values old had in the
\* columns every version has.
RowsKept(old, new) ==
    /\ {<<r.id, r.total, r.incidence, r.active, r.progress>> : r \in new.items}
         = {<<r.id, r.total, r.incidence, r.active, r.progress>> : r \in old.items}
    /\ {<<r.id, r.number, r.coord_e, r.coord_n>> : r \in new.atajados}
         = {<<r.id, r.number, r.coord_e, r.coord_n>> : r \in old.atajados}
    /\ new.avances = old.avances

\* C13: opening a package whose database lacks any of the columns items.code,
\* items.unit_price, atajados.este, atajados.norte, atajados.porcentaje
\* completes without error; afterwards the database has all of them and the
\* rows it had.
C13_LegacyOpens ==
    [][(last'.op = "open_project" /\ fs[Val(last'.info)].hasdb) =>
          /\ last'.ret # "raised"
          /\ cols' = MigratedCols
          /\ RowsKept(fs[Val(last'.info)].db, TheDb')]_vars

\* C14: opening a database that _init_tables and _migrations have already been
\* applied to (every later-added column is there) changes neither its schema
\* nor any of its rows, however often it is saved and opened again and
\* whatever was edited in between; so a second Database.open of any database
\* the project holds would leave it as it is.
C14_Idempotent ==
    [][/\ (/\ last'.op = "open_project"
           /\ fs[Val(last'.info)].hasdb
           /\ fs[Val(last'.info)].db.cols = MigratedCols) =>
              (last'.ret = "None" /\ TheDb' = fs[Val(last'.info)].db)
       /\ DatabaseOpen(TheDb') = Done(TheDb')]_vars

\* A package saved after its item was edited, so that unit_price and
\* incidence differ, was opened again.
C14_Witness ==
    /\ last.op = "open_project"
    /\ last.ret = "None"
    /\ last.info = Some(P("b", ".spkg"))
    /\ TheDb = fs[P("b", ".spkg")].db
    /\ \E r \in items : r.unit_price = Some(1) /\ r.incidence = 2
    /\ \E r \in atajados : r.este = Some(3)

-----------------------------------------------------------------------------
(* Properties of the main window, checked under SpecWindow *)

\* C15: after every flow of the main window, whether it replaced the project,
\* failed or was cancelled, MainWindow.db and the db of every tab are the
\* object that is manager.proyecto.db.
C15_TabsHoldProjectDb ==
    /\ window.db = "proyecto.db"
    /\ \A t \in Tabs : window.tabs[t] = "proyecto.db"

\* A project with unsaved changes was saved from the prompt and replaced by
\* an opened package.
C15_Witness ==
    /\ last.op = "_open_project"
    /\ last.ret = "None"
    /\ last.info.resp = "Yes"
    /\ last.info.went
    /\ db_path = "file"
    /\ path = Some(P("a", ".zip"))
    /\ \A t \in Tabs : window.tabs[t] = "proyecto.db"

WindowFlows == {"_new_project", "_open_project", "closeEvent"}

\* C16: a flow that replaces the project or closes the window goes on only if
\* the project is not dirty, or the answer was No, or the answer was Yes and
\* the save wrote the project's database to its package. With the answer
\* Cancel, or the answer Yes and a save that returned False (its dialog was
\* cancelled), nothing changes: project, path, dirty flag, files, the window
\* stays open and manager.close is not called. A save that raises leaves the
\* project in place, dirty, and the window open.
C16_NoSilentDiscard ==
    [][last'.op \in WindowFlows =>
          LET i == last'.info
              replaced == \/ TheDb' # TheDb
                          \/ db_path' # db_path
                          \/ window'.closed
                          \/ last'.ret = "accept"
              target == IF IsNull(path) THEN with_suffix(Val(i.dlg), ".spkg")
                        ELSE Val(path)
              same == UNCHANGED <<items, atajados, avances, cols, db_path,
                                  workfile, temp_dir, dirty, path, fs, window,
                                  uiVars>>
          IN  /\ (replaced \/ i.went) =>
                    \/ ~dirty
                    \/ i.resp = "No"
                    \/ i.resp = "Yes" /\ i.saved = "True"
                         /\ ~(IsNull(path) /\ IsNull(i.dlg))
                         /\ fs'[target] = Package(TheDb)
              /\ (dirty /\ i.resp = "Cancel") => same /\ ~i.went
              /\ (dirty /\ i.resp = "Yes" /\ i.saved = "False") =>
                    same /\ ~i.went /\ IsNull(i.dlg)
              /\ (dirty /\ i.resp = "Yes" /\ i.saved = "raised") =>
                    ~replaced /\ dirty' /\ ~i.went]_vars

\* Asked to save on New project, the user answered Yes and then cancelled
\* the save dialog: the changed project is still there.
C16_Witness ==
    /\ last.op = "_new_project"
    /\ last.info.resp = "Yes"
    /\ last.info.saved = "False"
    /\ dirty
    /\ IsNull(path)
    /\ items # {}
    /\ ~window.closed

-----------------------------------------------------------------------------
(* Deletes and the progress records, checked under SpecDelete *)

\* The progress records the Avance tab keeps for the atajado with number n:
\* save_progress writes them with atajado_id = current_atajado, the number
\* picked in the selector.
RecordedFor(avs, n) == {v \in avs : v.atajado_id = n}

\* C17: deleting an atajado in the Atajados tab removes exactly the progress
\* records recorded for that atajado in the Avance tab and leaves every other
\* progress record unchanged; deleting an item removes exactly that item's
\* progress records.
C17_DeleteRemovesOwnAvances ==
    [][/\ (last'.op = "atajados_delete" /\ last'.ret = "ok") =>
             \A d \in atajados \ atajados' :
                 avances' = avances \ RecordedFor(avances, d.number)
       /\ (last'.op = "items_delete" /\ last'.ret = "ok") =>
             \A d \in items \ items' :
                 avances' = {v \in avances : v.item_id # d.id}]_vars

\* Progress was recorded for the atajado whose number is not its id, and
\* that atajado is gone while its records are still stored.
C17_Orphans ==
    /\ last.op = "atajados_delete"
    /\ avances # {}
    /\ \A v \in avances : ~ \E a \in atajados : a.number = v.atajado_id

-----------------------------------------------------------------------------
(* The two coordinate namings, checked under SpecAtajados *)

\* C18: in every state reachable through the Atajados tab, every atajados row
\* has este = coord_e and norte = coord_n, so what the Avance tab reads
\* (este, norte) is what was entered in the Atajados tab.
C18_CoordAliases ==
    \A a \in atajados :
        /\ a.este = Some(a.coord_e)
        /\ a.norte = Some(a.coord_n)

-----------------------------------------------------------------------------
(* The percentage of an item in the Items tab, checked under SpecPct *)

\* C19: for every active item, the percentage the Items tab shows
\* (_calc_global_pct) is the percentage get_project_progress uses for the
\* item (the average of its avances.quantity), rounded as the tab rounds it.
C19_SameItemPct ==
    last.op = "refresh" =>
        \A i \in DOMAIN last.info :
            last.info[i] = Round0(AvgQuantity(avances, i))

-----------------------------------------------------------------------------
(* Stored percentages, checked under SpecProgress *)

PctSteps == {0, 25, 50, 75, 100}

\* C20: in every state reachable through the tabs, every avances.quantity and
\* every items.progress is one of 0, 25, 50, 75, 100, and every
\* atajados.porcentaje is between 0 and 100.
C20_StoredPctInRange ==
    /\ \A v \in avances : v.quantity \in PctSteps
    /\ \A i \in items : i.progress \in PctSteps
    /\ \A a \in atajados :
          \/ IsNull(a.porcentaje)
          \/ /\ RLeq(RInt(0), Val(a.porcentaje))
             /\ RLeq(Val(a.porcentaje), RInt(100))

-----------------------------------------------------------------------------
(* The percentage and status save_progress stores, checked under SpecEstado *)

\* The quantity recorded for item i and the atajado with number n, 0 when
\* there is none.
QuantityFor(avs, i, n) ==
    LET m == {v \in avs : v.item_id = i.id /\ v.atajado_id = n}
    IN  IF m = {} THEN 0 ELSE (CHOOSE v \in m : TRUE).quantity

\* <<sum of cost, sum of cost * quantity>> over the items its, the cost of an
\* item being total * incidence as _recalcular_estado reads it.
RECURSIVE CostSums(_, _, _)
CostSums(its, avs, n) ==
    IF its = {} THEN <<0, 0>>
    ELSE LET i == CHOOSE x \in its : TRUE
             rest == CostSums(its \ {i}, avs, n)
             cost == i.total * i.incidence
         IN  <<rest[1] + cost, rest[2] + cost * QuantityFor(avs, i, n)>>

\* The cost-weighted mean of the quantities recorded for atajado n over the
\* active items, rounded to one decimal; 0 when their total cost is 0.
WeightedMean(its, avs, n) ==
    LET t == CostSums({i \in its : i.active = 1}, avs, n)
    IN  IF t[1] = 0 THEN RInt(0) ELSE Round1(Rat(t[2], t[1]))

\* C21: after a save_progress that saved at least one row for the selected
\* atajado A, A's porcentaje is the cost-weighted mean over the active items
\* of A's recorded quantities (0 for an item without record), rounded to one
\* decimal, 0 when the total cost is 0, and A's status is Ejecutado iff that
\* porcentaje is >= 100. When no row was saved nothing is recomputed.
C21_EstadoIsWeightedMean ==
    [][(last'.op = "save_progress" /\ last'.ret = "ok") =>
          IF last'.info.filas_ok > 0
          THEN \A a \in atajados' :
                  a.number = Val(current_atajado) =>
                      LET p == WeightedMean(items', avances', a.number)
                      IN  /\ a.porcentaje = Some(p)
                          /\ a.status = IF RLeq(RInt(100), p) THEN "Ejecutado"
                                        ELSE "En ejecucion"
          ELSE atajados' = atajados /\ avances' = avances]_vars

\* Two active items of cost 1 and 2; 50 % is saved for the first one only,
\* the second was switched on after the table was loaded: 16.7.
C21_Witness ==
    /\ last.op = "save_progress"
    /\ last.info.filas_ok = 1
    /\ \A i \in items : i.active = 1
    /\ \E a \in atajados :
          /\ a.number = Val(current_atajado)
          /\ a.porcentaje = Some(Rat(167, 10))
          /\ a.status = "En ejecucion"

-----------------------------------------------------------------------------
(* What save_progress touches, checked under SpecDelete *)

\* The atajados row picked in the selector of the Avance tab: the selector
\* lists the atajados by their number.
Selected(ats, cur) == {a \in ats : a.number = cur}

\* The avances rows of the atajados row a: those whose atajado_id refers to
\* it (FOREIGN KEY(atajado_id) REFERENCES atajados(id)).
RowsOf(avs, a) == {v \in avs : v.atajado_id = a.id}

\* C22: saving progress while atajado A is selected changes only avances
\* rows of A and only A's porcentaje and status; the items, every other
\* atajados row and the avances rows of every other atajado stay as they
\* were.
C22_SaveFrame ==
    [][(last'.op = "save_progress" /\ ~IsNull(current_atajado)) =>
          \A A \in Selected(atajados, Val(current_atajado)) :
              /\ items' = items
              /\ \E B \in atajados' :
                    /\ B = [A EXCEPT !.porcentaje = B.porcentaje,
                                     !.status = B.status]
                    /\ atajados' = (atajados \ {A}) \cup {B}
              /\ avances \ RowsOf(avances, A) = avances' \ RowsOf(avances', A)]_vars

\* C25: for every registered atajado, whatever its number and its id,
\* selecting it and saving progress stores one avances row for every item of
\* the table, and the atajado_id of each such row is the id of that atajado:
\* no row is rejected and none goes to another atajado.
C25_SavedUnderOwnId ==
    [][(last'.op = "save_progress" /\ ~IsNull(current_atajado)) =>
          \A A \in Selected(atajados, Val(current_atajado)) :
              \A k \in 1..Len(table) :
                  (\E i \in items : i.id = table[k]) =>
                      /\ \E v \in avances' :
                            v.item_id = table[k] /\ v.atajado_id = A.id
                      /\ \A v \in avances' \ avances : v.atajado_id = A.id]_vars

-----------------------------------------------------------------------------
(* The window title, checked under Spec *)

\* The title marks the project as modified exactly when the manager is dirty
\* and names the file of the project's path.
TitleShowsProject ==
    /\ window.title.star = dirty
    /\ window.title.name = IF IsNull(path) THEN "Sin titulo"
                           ELSE Val(path).stem \o Val(path).ext

\* dirtyChanged(True) is emitted only by a call that found the project clean
\* and left it dirty.
DirtySignalOnTransition ==
    (\E k \in DOMAIN last'.sig : last'.sig[k] = Signal("dirtyChanged", "True"))
        => ~dirty /\ dirty'

\* C23: after every manager operation the window title starts with * iff the
\* manager is dirty and names the file of the project's path, Sin titulo when
\* there is none; dirtyChanged(True) is emitted only on a clean-to-dirty
\* transition.
C23_TitleFollowsManager ==
    [][TitleShowsProject' /\ DirtySignalOnTransition]_vars

-----------------------------------------------------------------------------
(* A failed open, checked under Spec *)

\* C24: an open_project that raises leaves the loaded project as it was: its
\* database, its path, the dirty flag, and the working directory and database
\* file it was extracted to.
C24_FailedOpenKeepsProject ==
    [][(last'.op = "open_project" /\ last'.ret = "raised") =>
          UNCHANGED <<items, atajados, avances, cols, db_path, path, dirty,
                      temp_dir, workfile>>]_vars

-----------------------------------------------------------------------------
(* Images and the project they belong to, checked under SpecImages *)

\* The names of the images of the set imgs that are filed under number n.
NamesFor(imgs, n) == {i.name : i \in {x \in imgs : x.num = n}}

\* C26: the images shown for an atajado of the loaded project are the ones
\* attached in this project or stored in the package it was opened from,
\* never one attached under a project loaded before; and save_project writes
\* exactly those images into the package.
C26_ImagesBelongToProject ==
    [][/\ \A a \in atajados' :
             _reload_thumbs(images', Some(a.number))
                 = NamesFor(images'.mine, a.number)
       /\ (last'.op = "save_project" /\ last'.ret = "True") =>
             images'.pkg[Val(path')] = images.mine]_vars

-----------------------------------------------------------------------------
(* The cached percentage of an atajado, checked under SpecEstado *)

\* C27: in every reachable state, every atajado that has a progress record
\* holds the porcentaje and status that _recalcular_estado would compute for
\* it from the items and avances as they are now.
C27_CachedPctIsCurrent ==
    \A a \in atajados :
        (\E v \in avances : v.atajado_id = a.number) =>
            LET p == avg_pct(items, atajados, avances, a.number)
            IN  /\ a.porcentaje = Some(p)
                /\ a.status = estado(p)

-----------------------------------------------------------------------------
(* The Avance tab after the database is swapped, checked under SpecDelete *)

\* C28: after new_project or open_project has swapped the database,
\* current_atajado of the Avance tab is None or the number of an atajado of
\* the new database; checked for the swaps that start with an atajado of the
\* previous database selected.
C28_AvanceTabFollowsSwap ==
    [][(/\ last'.op \in {"new_project", "open_project"}
        /\ last'.ret # "raised"
        /\ ~IsNull(current_atajado)
        /\ \E a \in atajados : a.number = Val(current_atajado))
       => \/ IsNull(current_atajado')
          \/ \E a \in atajados' : a.number = Val(current_atajado')]_vars

=============================================================================
